---- MODULE Spec2Model ----
(***************************************************************************)
(* Rally data service: the /trigger batch pipeline of src/http_handler.py  *)
(* (validation, expansion, concurrent tasks, aggregation), the callback    *)
(* fan-out and row filter of src/data_store.py, the column letter and the  *)
(* region write of src/excel_exporter.py and the registry refresh of       *)
(* src/multithreaded_datastore.py.  Each component has its own             *)
(* specification (Spec, SpecFilter, SpecLetter, SpecSheet, SpecRegistry);  *)
(* the variables of the other components do not change in it.              *)
(*                                                                         *)
(* Encodings.  A Python Optional[x] is a sequence of length at most one:   *)
(* None is <<>>, a present value v is <<v>>.  A text cell is a sequence of *)
(* one-character strings, so that strip(), isdigit() and int() are         *)
(* computed and not assumed.  Python indexes are 0-based; sequences here   *)
(* are 1-based and the 0-based index is written i - 1 where the code       *)
(* formats it into a message or a name.                                    *)
(***************************************************************************)
EXTENDS Integers, Sequences, FiniteSets, TLC

VARIABLES
    callbacks,      \* RallyDataProcessor._callbacks: endpoint -> list of sinks
    phase,          \* position of the /trigger handler
    request,        \* TriggerRequest.tasks of the submitted batch
    exception,      \* Optional HTTPException raised to the caller
    task_names,     \* trigger_data_update: task_names
    tasks,          \* trigger_data_update: async_tasks (one record per coroutine)
    http_requests,  \* number of requests sent to the feed
    report,         \* Optional response body of /trigger
    filter_input,   \* filter_racing_numbers: data
    filter_output,  \* Optional result of filter_racing_numbers(data)
    filter_again,   \* Optional result of filtering that result once more
    letter_input,   \* a column count
    letter_result,  \* Optional result of _get_column_letter(letter_input)
    letter_end_col, \* Optional end_col of _write_excel_data for letter_input columns
    excel_clean_horizontal_cells,   \* settings: cells cleared right of a write
    excel_clean_vertical_cells,     \* settings: cells cleared below a write
    sheet,          \* the non-empty cells of one sheet of the workbook
    sheet_before,   \* sheet at the start of the last _write_excel_data
    last_write,     \* Optional arguments and outcome of the last _write_excel_data
    write_count,    \* calls of _write_excel_data so far
    _racing_numbers,    \* MultithreadedDatastore: class -> racing number
    _stages,            \* MultithreadedDatastore: class -> stage
    refresh,            \* the last call of update_from_excel
    refresh_count,      \* calls of update_from_excel so far
    reader,             \* a thread reading the registry: its position and what it read
    fetch,              \* one call of a get_* method of the client and what follows it
    other_refresh,      \* a call of update_from_excel by a second thread
    objects,            \* the dict objects of the store and of one caller, by reference
    export              \* one call of export_racing_speed and the output directory

pipelineVars ==
    <<callbacks, phase, request, exception, task_names, tasks, http_requests, report>>

filterVars == <<filter_input, filter_output, filter_again>>

letterVars == <<letter_input, letter_result, letter_end_col>>

sheetVars ==
    <<excel_clean_horizontal_cells, excel_clean_vertical_cells,
      sheet, sheet_before, last_write, write_count>>

registryVars == <<_racing_numbers, _stages, refresh, refresh_count>>

readerVars == <<reader>>

fetchVars == <<fetch>>

otherRefreshVars == <<other_refresh>>

objectVars == <<objects>>

exportVars == <<export>>

nonPipelineVars == <<filterVars, letterVars, sheetVars, registryVars, readerVars, fetchVars,
    otherRefreshVars, objectVars, exportVars>>

nonFilterVars == <<pipelineVars, letterVars, sheetVars, registryVars, readerVars, fetchVars,
    otherRefreshVars, objectVars, exportVars>>

nonLetterVars == <<pipelineVars, filterVars, sheetVars, registryVars, readerVars, fetchVars,
    otherRefreshVars, objectVars, exportVars>>

nonSheetVars == <<pipelineVars, filterVars, letterVars, registryVars, readerVars, fetchVars,
    otherRefreshVars, objectVars, exportVars>>

nonRegistryVars == <<pipelineVars, filterVars, letterVars, sheetVars, readerVars, fetchVars,
    otherRefreshVars, objectVars, exportVars>>

nonReaderVars == <<pipelineVars, filterVars, letterVars, sheetVars, registryVars, fetchVars,
    otherRefreshVars, objectVars, exportVars>>

nonFetchVars == <<pipelineVars, filterVars, letterVars, sheetVars, registryVars, readerVars,
    otherRefreshVars, objectVars, exportVars>>

\* everything but the registry and the two calls of update_from_excel
nonStoreVars == <<pipelineVars, filterVars, letterVars, sheetVars, readerVars, fetchVars, objectVars, exportVars>>

nonObjectVars == <<pipelineVars, filterVars, letterVars, sheetVars, registryVars, readerVars,
                   fetchVars, otherRefreshVars, exportVars>>

nonExportVars == <<pipelineVars, filterVars, letterVars, sheetVars, registryVars, readerVars,
                   fetchVars, otherRefreshVars, objectVars>>

vars == <<pipelineVars, filterVars, letterVars, sheetVars, registryVars, readerVars, fetchVars,
          otherRefreshVars, objectVars, exportVars>>

---------------------------------------------------------------------------
(* Bounds of the model *)

MaxTasks == 2        \* requests in one batch
MaxExpanded == 3     \* coroutines of one batch
MaxCallbacks == 2    \* add_callback calls

---------------------------------------------------------------------------
(* Optional values *)

None == <<>>
Some(v) == <<v>>
IsNone(o) == Len(o) = 0
Get(o) == o[1]

---------------------------------------------------------------------------
(* models.py: the closed sets *)

APIEndpoint == {"8", "9", "10", "3", "4", "104"}

RallyClass == {"1", "2", "3"}

\* APIEndpoint.needs_stage_id(): stage results, current stage and enhanced
\* current stage are stage-scoped; the three lists are not.
needs_stage_id(endpoint) == endpoint \in {"3", "4", "104"}

---------------------------------------------------------------------------
(* Text cells: str.strip(), str.isdigit(), int() *)

Whitespace == {" "}

\* The characters int() accepts as decimal digits, with their values.
DigitVal == [c \in {"0", "1", "2", "3", "4", "5", "6", "7", "8", "9"} |->
               CASE c = "0" -> 0 [] c = "1" -> 1 [] c = "2" -> 2 [] c = "3" -> 3
                 [] c = "4" -> 4 [] c = "5" -> 5 [] c = "6" -> 6 [] c = "7" -> 7
                 [] c = "8" -> 8 [] c = "9" -> 9]

\* str.isdigit() is also true of digit characters int() rejects with a
\* ValueError; "sup2" stands for one of them (U+00B2).
IsDigitChar(c) == c \in DOMAIN DigitVal \/ c = "sup2"

RECURSIVE lstrip(_)
lstrip(s) == IF s # <<>> /\ Head(s) \in Whitespace THEN lstrip(Tail(s)) ELSE s

RECURSIVE rstrip(_)
rstrip(s) ==
    IF s # <<>> /\ s[Len(s)] \in Whitespace THEN rstrip(SubSeq(s, 1, Len(s) - 1)) ELSE s

strip(s) == rstrip(lstrip(s))

isdigit(s) == s # <<>> /\ \A i \in 1..Len(s) : IsDigitChar(s[i])

IntRaises(s) == \E i \in 1..Len(s) : s[i] \notin DOMAIN DigitVal

RECURSIVE int(_)
int(s) == IF s = <<>> THEN 0
          ELSE 10 * int(SubSeq(s, 1, Len(s) - 1)) + DigitVal[s[Len(s)]]

---------------------------------------------------------------------------
(* data_store.py: filter_racing_numbers *)

rs_column_name == <<"R", "S", "z">>

\* Variant of RsColumns that falls back to the first column
RsColumns_first_column(headers) ==
    IF \E i \in 1..Len(headers) : headers[i] # <<>> /\ strip(headers[i]) = rs_column_name
    THEN {i \in 1..Len(headers) : headers[i] # <<>> /\ strip(headers[i]) = rs_column_name}
    ELSE {1}

\* 1-based positions of the header cells naming the racing-number column
RsColumns(headers) ==
    {i \in 1..Len(headers) : headers[i] # <<>> /\ strip(headers[i]) = rs_column_name}

Min(S) == CHOOSE x \in S : \A y \in S : x <= y

\* Variant of KeepsRow with the comparison racing_number < 900
KeepsRow_below(row, rs_column_index) ==
    IF row # <<>> /\ Len(row) >= rs_column_index
    THEN LET racing_number_str == strip(row[rs_column_index])
         IN  IF racing_number_str # <<>> /\ isdigit(racing_number_str)
             THEN IF IntRaises(racing_number_str)
                  THEN TRUE
                  ELSE int(racing_number_str) < 900
             ELSE TRUE
    ELSE TRUE

\* One data row of the loop over data[1:]: TRUE when the row is appended.
KeepsRow(row, rs_column_index) ==
    IF row # <<>> /\ Len(row) >= rs_column_index
    THEN LET racing_number_str == strip(row[rs_column_index])
         IN  IF racing_number_str # <<>> /\ isdigit(racing_number_str)
             THEN IF IntRaises(racing_number_str)
                  THEN TRUE                             \* except ValueError: kept
                  ELSE int(racing_number_str) <= 900
             ELSE TRUE                                  \* non-numeric or empty
    ELSE TRUE                                           \* not enough columns

\* Variant of filter_racing_numbers that puts every kept row in front of the
\* rows kept before it
filter_racing_numbers_prepend(data) ==
    IF Len(data) < 2 THEN data
    ELSE LET headers == data[1]
         IN  IF RsColumns(headers) = {} THEN data
             ELSE LET rs_column_index == Min(RsColumns(headers))
                      Keep(row) == KeepsRow(row, rs_column_index)
                      kept == SelectSeq(Tail(data), Keep)
                  IN  <<headers>> \o [k \in 1..Len(kept) |-> kept[Len(kept) + 1 - k]]

\* Variant of filter_racing_numbers whose result starts without the headers
filter_racing_numbers_no_headers(data) ==
    IF Len(data) < 2 THEN data
    ELSE LET headers == data[1]
         IN  IF RsColumns(headers) = {} THEN data
             ELSE LET rs_column_index == Min(RsColumns(headers))
                      Keep(row) == KeepsRow(row, rs_column_index)
                  IN  SelectSeq(Tail(data), Keep)

filter_racing_numbers(data) ==
    IF Len(data) < 2 THEN data
    ELSE LET headers == data[1]
         IN  IF RsColumns(headers) = {} THEN data
             ELSE LET rs_column_index == Min(RsColumns(headers))
                      Keep(row) == KeepsRow(row, rs_column_index)
                  IN  <<headers>> \o SelectSeq(Tail(data), Keep)

---------------------------------------------------------------------------
(* Inputs of the model *)

ClassInputs == {"1", "2", "9"}          \* "9" is no RallyClass
EndpointInputs == {"8", "3", "7"}       \* "7" is no APIEndpoint
StageIdInputs ==
    {None, Some(<<>>), Some(<<"1">>), Some(<<"1", "2">>), Some(<<"1", "1">>)}

TaskItem == [rally_class : ClassInputs, endpoint : EndpointInputs, stage_ids : StageIdInputs]

TriggerRequests == UNION {[1..n -> TaskItem] : n \in 0..MaxTasks}

SubscribedEndpoints == {"8", "3"}       \* endpoints add_callback is called for

Header == <<"R", "S", "z">>
SampleTable == << <<Header, <<"N">>>>, << <<"7">>, <<"a">> >>, << <<"9", "0", "1">>, <<"b">> >> >>

\* What one request to the feed can end in: an exception of the transport or
\* of the parser (str(e) is the error), or the parsed rows.
FeedOutcomes ==
    {[raised |-> TRUE, error |-> "Timeout", data |-> <<>>]}
    \cup {[raised |-> FALSE, error |-> "", data |-> SampleTable]}

SinkOutcomes == {"ok", "raise"}

---------------------------------------------------------------------------
(* http_handler.py: _validate_task and the validation loop *)

Truthy(stage_ids) == ~IsNone(stage_ids) /\ Get(stage_ids) # <<>>

Message(index, text) == [index |-> index, text |-> text]

\* Variants of _validate_task with one check left out
_validate_task_no_requires(index, task) ==
    IF task.rally_class \notin RallyClass
    THEN Some(Message(index, "Invalid - not a valid RallyClass"))
    ELSE IF task.endpoint \notin APIEndpoint
    THEN Some(Message(index, "Invalid - not a valid APIEndpoint"))
    ELSE IF ~needs_stage_id(task.endpoint) /\ Truthy(task.stage_ids)
    THEN Some(Message(index, "does not use stage_ids"))
    ELSE None

_validate_task_no_unused(index, task) ==
    IF task.rally_class \notin RallyClass
    THEN Some(Message(index, "Invalid - not a valid RallyClass"))
    ELSE IF task.endpoint \notin APIEndpoint
    THEN Some(Message(index, "Invalid - not a valid APIEndpoint"))
    ELSE IF needs_stage_id(task.endpoint) /\ ~Truthy(task.stage_ids)
    THEN Some(Message(index, "requires stage_ids"))
    ELSE None

_validate_task_no_class(index, task) ==
    IF task.endpoint \notin APIEndpoint
    THEN Some(Message(index, "Invalid - not a valid APIEndpoint"))
    ELSE IF needs_stage_id(task.endpoint) /\ ~Truthy(task.stage_ids)
    THEN Some(Message(index, "requires stage_ids"))
    ELSE IF ~needs_stage_id(task.endpoint) /\ Truthy(task.stage_ids)
    THEN Some(Message(index, "does not use stage_ids"))
    ELSE None

_validate_task(index, task) ==
    IF task.rally_class \notin RallyClass
    THEN Some(Message(index, "Invalid - not a valid RallyClass"))
    ELSE IF task.endpoint \notin APIEndpoint
    THEN Some(Message(index, "Invalid - not a valid APIEndpoint"))
    ELSE IF needs_stage_id(task.endpoint) /\ ~Truthy(task.stage_ids)
    THEN Some(Message(index, "requires stage_ids"))
    ELSE IF ~needs_stage_id(task.endpoint) /\ Truthy(task.stage_ids)
    THEN Some(Message(index, "does not use stage_ids"))
    ELSE None

RECURSIVE validation_errors(_, _)

\* Variant of the loop that stops at the first invalid task
validation_errors_first_only(req, n) ==
    IF n = 0 THEN <<>>
    ELSE IF validation_errors(req, n - 1) # <<>> THEN validation_errors(req, n - 1)
    ELSE _validate_task(n - 1, req[n])

\* validation_errors after the first n tasks of the loop
validation_errors(req, n) ==
    IF n = 0 THEN <<>>
    ELSE validation_errors(req, n - 1) \o _validate_task(n - 1, req[n])

---------------------------------------------------------------------------
(* http_handler.py: expansion into coroutines and task names *)

\* The stage ids the expansion iterates over (validation has made them a
\* non-empty list for a stage-scoped endpoint).
StageList(task) == IF IsNone(task.stage_ids) THEN <<>> ELSE Get(task.stage_ids)

task_name(i, task, stage_id) == <<i, task.rally_class, task.endpoint, stage_id>>

Coroutine(i, task, stage_id) ==
    [name |-> task_name(i, task, stage_id),
     endpoint |-> task.endpoint,
     rally_class |-> task.rally_class,
     stage_id |-> stage_id]

\* Variant of the expansion that runs a stage-scoped request once
ExpandTask_first_stage(i, task) ==
    IF needs_stage_id(task.endpoint)
    THEN IF StageList(task) = <<>> THEN <<>>
         ELSE <<Coroutine(i, task, Some(StageList(task)[1]))>>
    ELSE <<Coroutine(i, task, None)>>

ExpandTask(i, task) ==
    IF needs_stage_id(task.endpoint)
    THEN [k \in 1..Len(StageList(task)) |-> Coroutine(i, task, Some(StageList(task)[k]))]
    ELSE <<Coroutine(i, task, None)>>

\* coroutines after the first n tasks of the loop
RECURSIVE Expand(_, _)
Expand(req, n) ==
    IF n = 0 THEN <<>> ELSE Expand(req, n - 1) \o ExpandTask(n - 1, req[n])

---------------------------------------------------------------------------
(* api_client.py: one fetch; data_store.py: process_response and
   _trigger_callbacks; http_handler.py: _execute_task *)

\* get_entry_list ... get_enhanced_current_stage: every exception of the
\* request or of the parser becomes a failed APIResponse.
APIResponse(endpoint, stage_id, rally_class, outcome) ==
    IF outcome.raised
    THEN [endpoint |-> endpoint, stage_id |-> stage_id, rally_class |-> rally_class,
          data |-> <<>>, success |-> FALSE, error_message |-> Some(outcome.error)]
    ELSE [endpoint |-> endpoint, stage_id |-> stage_id, rally_class |-> rally_class,
          data |-> outcome.data, success |-> TRUE, error_message |-> None]

\* Variant of the lookup that gives the callbacks of every endpoint, in the
\* order of their registration
CallbacksFor_every_endpoint(cbs, endpoint) ==
    LET all == UNION {{cbs[e][k] : k \in 1..Len(cbs[e])} : e \in DOMAIN cbs}
    IN  [k \in 1..Cardinality(all) |-> k]

\* self._callbacks.get(endpoint, [])
CallbacksFor(cbs, endpoint) == IF endpoint \in DOMAIN cbs THEN cbs[endpoint] ELSE <<>>

\* asyncio.create_task(coro): the coroutine is about to call its handler
NewTask(c) ==
    [name |-> c.name, endpoint |-> c.endpoint, rally_class |-> c.rally_class,
     stage_id |-> c.stage_id, pc |-> "fetching", fetches |-> 0, response |-> None,
     filter_calls |-> 0, data |-> None, sink_log |-> <<>>, dispatch_return |-> None,
     result |-> None]

\* _execute_task line 94: the dict the coroutine returns
ReturnResult(task) ==
    [task EXCEPT !.pc = "done",
                 !.result = Some([raised |-> FALSE,
                                  success |-> Get(task.response).success,
                                  error |-> Get(task.response).error_message])]

\* _execute_task line 96-98: an exception inside the try block
ReturnFailure(task, e) ==
    [task EXCEPT !.pc = "done",
                 !.result = Some([raised |-> FALSE, success |-> FALSE, error |-> Some(e)])]

\* _trigger_callbacks has no return statement: the dispatch returns None
Dispatched(task) == [task EXCEPT !.dispatch_return = Some(None)]

\* Variant of process_response without the check of response.success
process_response_unchecked(task, sinks) ==
    LET filtered_data == filter_racing_numbers(Get(task.response).data)
        t == [task EXCEPT !.filter_calls = @ + 1, !.data = Some(filtered_data)]
    IN  IF sinks = <<>> THEN ReturnResult(Dispatched(t)) ELSE [t EXCEPT !.pc = "dispatching"]

\* Variant of process_response that never returns for a failed response
process_response_hangs(task, sinks) ==
    IF ~Get(task.response).success
    THEN [task EXCEPT !.pc = "hung"]
    ELSE LET filtered_data == filter_racing_numbers(Get(task.response).data)
             t == [task EXCEPT !.filter_calls = @ + 1, !.data = Some(filtered_data)]
         IN  IF sinks = <<>> THEN ReturnResult(Dispatched(t))
             ELSE [t EXCEPT !.pc = "dispatching"]

\* Variant of process_response that calls the callbacks with response.data
process_response_raw(task, sinks) ==
    IF ~Get(task.response).success
    THEN ReturnResult(task)
    ELSE LET t == [task EXCEPT !.filter_calls = @ + 1,
                               !.data = Some(Get(task.response).data)]
         IN  IF sinks = <<>> THEN ReturnResult(Dispatched(t))
             ELSE [t EXCEPT !.pc = "dispatching"]

\* process_response up to its first callback (or to its return), for a task
\* whose response has just been stored.
process_response(task, sinks) ==
    IF ~Get(task.response).success
    THEN ReturnResult(task)
    ELSE LET filtered_data == filter_racing_numbers(Get(task.response).data)
             t == [task EXCEPT !.filter_calls = @ + 1, !.data = Some(filtered_data)]
         IN  IF sinks = <<>> THEN ReturnResult(Dispatched(t))
             ELSE [t EXCEPT !.pc = "dispatching"]

\* Variant of _trigger_callbacks without the try/except around the callback
_trigger_callbacks_uncaught(task, sinks, outcome) ==
    LET callback == sinks[Len(task.sink_log) + 1]
        t == [task EXCEPT !.sink_log =
                  Append(@, [sink |-> callback, outcome |-> outcome, data |-> Get(task.data)])]
    IN  IF outcome = "raise" THEN ReturnFailure(t, "callback error")
        ELSE IF Len(t.sink_log) = Len(sinks) THEN ReturnResult(Dispatched(t)) ELSE t

\* Variant of _trigger_callbacks that returns once its first callback has ended
_trigger_callbacks_first_only(task, sinks, outcome) ==
    LET callback == sinks[Len(task.sink_log) + 1]
        t == [task EXCEPT !.sink_log =
                  Append(@, [sink |-> callback, outcome |-> outcome, data |-> Get(task.data)])]
    IN  ReturnResult(Dispatched(t))

\* _trigger_callbacks: one turn of the loop, the callback ending in outcome.
\* An exception of the callback is caught and logged.
_trigger_callbacks(task, sinks, outcome) ==
    LET callback == sinks[Len(task.sink_log) + 1]
        t == [task EXCEPT !.sink_log =
                  Append(@, [sink |-> callback, outcome |-> outcome, data |-> Get(task.data)])]
    IN  IF Len(t.sink_log) = Len(sinks) THEN ReturnResult(Dispatched(t)) ELSE t

---------------------------------------------------------------------------
(* http_handler.py: aggregation of the gathered results *)

Classify(result) ==
    IF result.raised THEN [success |-> FALSE, error |-> result.error]
    ELSE IF result.success THEN [success |-> result.success, error |-> result.error]
    ELSE [success |-> FALSE, error |-> Some("Unknown error")]

\* task_results after the first n pairs of zip(task_names, results)
RECURSIVE task_results(_, _, _)
task_results(names, results, n) ==
    IF n = 0 THEN <<>>
    ELSE LET prev == task_results(names, results, n - 1)
         IN  [k \in DOMAIN prev \cup {names[n]} |->
                 IF k = names[n] THEN Classify(results[n]) ELSE prev[k]]

\* success_count after the first n results
RECURSIVE success_count(_, _)
success_count(results, n) ==
    IF n = 0 THEN 0
    ELSE success_count(results, n - 1)
         + (IF ~results[n].raised /\ results[n].success THEN 1 ELSE 0)

Aggregate(req, names, async_tasks) ==
    LET results == [k \in 1..Len(async_tasks) |-> Get(async_tasks[k].result)]
    IN  [tasks_requested |-> Len(req),
         tasks_executed |-> Len(async_tasks),
         tasks_successful |-> success_count(results, Len(results)),
         results |-> task_results(names, results, Len(results)),
         success |-> success_count(results, Len(results)) = Len(async_tasks)]

---------------------------------------------------------------------------
(* The state machine *)

\* RallyHTTPHandler and RallyDataProcessor after construction
PipelineInit ==
    /\ callbacks = <<>>
    /\ phase = "idle"
    /\ request = <<>>
    /\ exception = None
    /\ task_names = <<>>
    /\ tasks = <<>>
    /\ http_requests = 0
    /\ report = None

\* no call of filter_racing_numbers outside the pipeline
FilterIdle ==
    /\ filter_input = <<>>
    /\ filter_output = None
    /\ filter_again = None

\* no call of _get_column_letter outside a write
LetterIdle ==
    /\ letter_input = 1
    /\ letter_result = None
    /\ letter_end_col = None

\* no workbook
SheetIdle ==
    /\ excel_clean_horizontal_cells = 0
    /\ excel_clean_vertical_cells = 0
    /\ sheet = <<>>
    /\ sheet_before = <<>>
    /\ last_write = None
    /\ write_count = 0

\* MultithreadedDatastore after construction, update_from_excel never called
RegistryInit ==
    /\ _racing_numbers = <<>>
    /\ _stages = <<>>
    /\ refresh = [pc |-> "idle"]
    /\ refresh_count = 0

\* no thread has read the registry
ReaderIdle == reader = [pc |-> "idle", reads |-> 0]

\* no get_* method of the client has been called outside the pipeline
FetchIdle == fetch = [pc |-> "idle"]

\* MultithreadedDatastore() as objects: two empty dicts, and no caller that
\* holds a dict
ObjectsInit ==
    objects = [heap |-> (1 :> <<>>) @@ (2 :> <<>>),
               store |-> [racing_numbers |-> 1, stages |-> 2],
               held |-> <<>>,
               expected_store |-> [racing_numbers |-> <<>>, stages |-> <<>>],
               expected_held |-> <<>>]

\* export_racing_speed has not been called and the output directory does
\* not exist yet
ExportIdle ==
    export = [pc |-> "idle", response |-> None, reads |-> 0, racing_number |-> None,
              filtered_data |-> None, filename |-> None, content |-> None,
              outcome |-> None, raised |-> None, dirs |-> {}, files |-> <<>>]

\* no second thread has called update_from_excel
OtherRefreshIdle == other_refresh = [pc |-> "idle"]

Init ==
    /\ PipelineInit
    /\ FilterIdle
    /\ LetterIdle
    /\ SheetIdle
    /\ RegistryInit
    /\ ReaderIdle
    /\ FetchIdle
    /\ OtherRefreshIdle
    /\ ObjectsInit
    /\ ExportIdle

Registered(cbs) == UNION {{cbs[e][k] : k \in 1..Len(cbs[e])} : e \in DOMAIN cbs}

\* Variant of add_callback that inserts the callback at the head of the list
add_callback_prepend(endpoint) ==
    /\ phase = "idle"
    /\ Cardinality(Registered(callbacks)) < MaxCallbacks
    /\ LET callback == Cardinality(Registered(callbacks)) + 1
       IN  callbacks' = [e \in DOMAIN callbacks \cup {endpoint} |->
                            IF e = endpoint
                            THEN <<callback>> \o CallbacksFor(callbacks, endpoint)
                            ELSE callbacks[e]]
    /\ UNCHANGED <<phase, request, exception, task_names, tasks, http_requests, report>>
    /\ UNCHANGED nonPipelineVars

\* RallyDataProcessor.add_callback; a sink is named by its registration number
add_callback(endpoint) ==
    /\ phase = "idle"
    /\ Cardinality(Registered(callbacks)) < MaxCallbacks
    /\ LET callback == Cardinality(Registered(callbacks)) + 1
       IN  callbacks' = [e \in DOMAIN callbacks \cup {endpoint} |->
                            IF e = endpoint
                            THEN Append(CallbacksFor(callbacks, endpoint), callback)
                            ELSE callbacks[e]]
    /\ UNCHANGED <<phase, request, exception, task_names, tasks, http_requests, report>>
    /\ UNCHANGED nonPipelineVars

\* Variant of trigger_data_update without the test "if not request.tasks"
trigger_data_update_no_empty_test(req) ==
    /\ phase = "idle"
    /\ Len(Expand(req, Len(req))) <= MaxExpanded
    /\ request' = req
    /\ IF validation_errors(req, Len(req)) # <<>>
       THEN /\ exception' = Some([status_code |-> 400,
                                  detail |-> validation_errors(req, Len(req))])
            /\ phase' = "rejected"
            /\ UNCHANGED <<task_names, tasks>>
       ELSE LET coroutines == Expand(req, Len(req))
            IN  /\ task_names' = [k \in 1..Len(coroutines) |-> coroutines[k].name]
                /\ tasks' = [k \in 1..Len(coroutines) |-> NewTask(coroutines[k])]
                /\ phase' = "running"
                /\ UNCHANGED exception
    /\ UNCHANGED <<callbacks, http_requests, report>>
    /\ UNCHANGED nonPipelineVars

\* POST /trigger up to "await asyncio.gather" (or to the HTTPException)
trigger_data_update(req) ==
    /\ phase = "idle"
    /\ Len(Expand(req, Len(req))) <= MaxExpanded
    /\ request' = req
    /\ IF req = <<>>
       THEN /\ exception' = Some([status_code |-> 400,
                                  detail |-> <<Message(-1, "No tasks provided")>>])
            /\ phase' = "rejected"
            /\ UNCHANGED <<task_names, tasks>>
       ELSE IF validation_errors(req, Len(req)) # <<>>
       THEN /\ exception' = Some([status_code |-> 400,
                                  detail |-> validation_errors(req, Len(req))])
            /\ phase' = "rejected"
            /\ UNCHANGED <<task_names, tasks>>
       ELSE LET coroutines == Expand(req, Len(req))
            IN  /\ task_names' = [k \in 1..Len(coroutines) |-> coroutines[k].name]
                /\ tasks' = [k \in 1..Len(coroutines) |-> NewTask(coroutines[k])]
                /\ phase' = "running"
                /\ UNCHANGED exception
    /\ UNCHANGED <<callbacks, http_requests, report>>
    /\ UNCHANGED nonPipelineVars

\* Variant of FetchReturns that calls the handler a second time when the
\* first request failed
FetchReturns_retry(t, outcome) ==
    /\ phase = "running"
    /\ tasks[t].pc = "fetching"
    /\ http_requests' = http_requests + 1
    /\ LET task == tasks[t]
           response == APIResponse(task.endpoint, task.stage_id, task.rally_class, outcome)
           fetched == [task EXCEPT !.fetches = @ + 1, !.response = Some(response)]
       IN  tasks' = [tasks EXCEPT
                        ![t] = IF outcome.raised /\ task.fetches = 0
                               THEN [task EXCEPT !.fetches = @ + 1]
                               ELSE process_response(fetched,
                                                     CallbacksFor(callbacks, task.endpoint))]
    /\ UNCHANGED <<callbacks, phase, request, exception, task_names, report>>
    /\ UNCHANGED nonPipelineVars

\* _execute_task: the handler call (one request to the feed, ending in
\* outcome) and what follows it without suspension
FetchReturns(t, outcome) ==
    /\ phase = "running"
    /\ tasks[t].pc = "fetching"
    /\ http_requests' = http_requests + 1
    /\ LET task == tasks[t]
           response == APIResponse(task.endpoint, task.stage_id, task.rally_class, outcome)
           fetched == [task EXCEPT !.fetches = @ + 1, !.response = Some(response)]
       IN  tasks' = [tasks EXCEPT
                        ![t] = process_response(fetched, CallbacksFor(callbacks, task.endpoint))]
    /\ UNCHANGED <<callbacks, phase, request, exception, task_names, report>>
    /\ UNCHANGED nonPipelineVars

\* one awaited callback of the dispatch of task t returns or raises
CallbackReturns(t, outcome) ==
    /\ phase = "running"
    /\ tasks[t].pc = "dispatching"
    /\ tasks' = [tasks EXCEPT
                    ![t] = _trigger_callbacks(tasks[t],
                                              CallbacksFor(callbacks, tasks[t].endpoint),
                                              outcome)]
    /\ UNCHANGED <<callbacks, phase, request, exception, task_names, http_requests, report>>
    /\ UNCHANGED nonPipelineVars

IsDone(task) == task.pc = "done"

\* Variant of GatherReturns that answers when the first task has completed
GatherReturns_first_completed ==
    /\ phase = "running"
    /\ \E t \in 1..Len(tasks) : IsDone(tasks[t])
    /\ report' = Some(Aggregate(request, task_names, SelectSeq(tasks, IsDone)))
    /\ phase' = "reported"
    /\ UNCHANGED <<callbacks, request, exception, task_names, tasks, http_requests>>
    /\ UNCHANGED nonPipelineVars

\* asyncio.gather returns: aggregation and the response body
GatherReturns ==
    /\ phase = "running"
    /\ \A t \in 1..Len(tasks) : tasks[t].pc = "done"
    /\ report' = Some(Aggregate(request, task_names, tasks))
    /\ phase' = "reported"
    /\ UNCHANGED <<callbacks, request, exception, task_names, tasks, http_requests>>
    /\ UNCHANGED nonPipelineVars

Next ==
    \/ \E endpoint \in SubscribedEndpoints : add_callback(endpoint)
    \/ phase = "idle" /\ \E req \in TriggerRequests : trigger_data_update(req)
    \/ \E t \in 1..Len(tasks) : \E outcome \in FeedOutcomes : FetchReturns(t, outcome)
    \/ \E t \in 1..Len(tasks) : \E outcome \in SinkOutcomes : CallbackReturns(t, outcome)
    \/ GatherReturns

Spec == Init /\ [][Next]_vars

\* Every handler call returns (the session has a total timeout, and an
\* exception is a return), every awaited callback returns or raises, and the
\* event loop resumes a coroutine whose await has completed.
Fairness ==
    /\ WF_vars(\E t \in 1..Len(tasks) : \E outcome \in FeedOutcomes : FetchReturns(t, outcome))
    /\ WF_vars(\E t \in 1..Len(tasks) : \E outcome \in SinkOutcomes : CallbackReturns(t, outcome))
    /\ WF_vars(GatherReturns)

SpecLive == Init /\ [][Next]_vars /\ Fairness

---------------------------------------------------------------------------
(* main.py: the files the export callbacks of _setup_export_callbacks write *)

\* The name each callback starts its file name with
CallbackName(endpoint) ==
    CASE endpoint = "8" -> "entry_list"
      [] endpoint = "9" -> "start_list"
      [] endpoint = "10" -> "route_sheet"
      [] endpoint = "3" -> "stage_results"
      [] endpoint = "4" -> "current_stage"
      [] endpoint = "104" -> "enhanced_current"

\* The filename the callback registered for the endpoint passes to
\* export_to_csv, as the list of the pieces of the f-string: a fixed name for
\* the three basic endpoints, and f"{name}_{stage_id}.csv" if stage_id else
\* f"{name}.csv" for the three stage endpoints
callback_filename(endpoint, stage_id) ==
    IF endpoint \in {"8", "9", "10"}
    THEN <<CallbackName(endpoint), ".csv">>
    ELSE IF ~IsNone(stage_id) /\ Get(stage_id) # ""
    THEN <<CallbackName(endpoint), "_", Get(stage_id), ".csv">>
    ELSE <<CallbackName(endpoint), ".csv">>

---------------------------------------------------------------------------
(* Properties of the batch pipeline *)

\* The validation rules of a request, stated on the request alone
ValidRequest(task) ==
    /\ task.rally_class \in RallyClass
    /\ task.endpoint \in APIEndpoint
    /\ needs_stage_id(task.endpoint) <=> Truthy(task.stage_ids)

InvalidIndexes(req) == {i \in 1..Len(req) : ~ValidRequest(req[i])}

Submitted == phase # "idle"

Rejected == phase = "rejected" /\ ~IsNone(exception)

NoFetch == http_requests = 0 /\ tasks = <<>> /\ report = None

\* The error of the caller names request i (0-based index i - 1)
HasMessage(i) ==
    \E k \in 1..Len(Get(exception).detail) : Get(exception).detail[k].index = i - 1

\* C1: if at least one request of a submitted batch is invalid, no fetch is
\* issued for any request of the batch and the error returned to the caller
\* holds one message for every invalid request.
C1_InvalidBatchAllOrNothing ==
    (Submitted /\ InvalidIndexes(request) # {}) =>
        /\ Rejected
        /\ NoFetch
        /\ Len(Get(exception).detail) = Cardinality(InvalidIndexes(request))
        /\ \A i \in InvalidIndexes(request) : HasMessage(i)

C1_Witness ==
    /\ Rejected
    /\ Cardinality(InvalidIndexes(request)) = 2
    /\ Len(Get(exception).detail) = 2

\* a batch of a valid request followed by an invalid one is the other case
C1_WitnessMixed ==
    /\ Rejected
    /\ Len(request) = 2
    /\ InvalidIndexes(request) = {2}

\* C2: a request whose kind is stage-scoped and whose stage_ids is empty or
\* absent is rejected by validation and no fetch is issued.
C2_StageScopedNeedsStages ==
    \A i \in 1..Len(request) :
        (Submitted /\ needs_stage_id(request[i].endpoint) /\ ~Truthy(request[i].stage_ids))
            => (Rejected /\ HasMessage(i) /\ NoFetch)

C2_Witness ==
    /\ Rejected
    /\ \E i \in 1..Len(request) :
          /\ request[i].endpoint = "3"
          /\ request[i].rally_class \in RallyClass
          /\ request[i].stage_ids = Some(<<>>)
          /\ Message(i - 1, "requires stage_ids") = Get(exception).detail[1]

\* C3: a request whose kind is not stage-scoped and whose stage_ids is
\* non-empty is rejected by validation.
C3_UnscopedRejectsStages ==
    \A i \in 1..Len(request) :
        (Submitted /\ ~needs_stage_id(request[i].endpoint) /\ Truthy(request[i].stage_ids))
            => (Rejected /\ HasMessage(i))

C3_Witness ==
    /\ Rejected
    /\ \E i \in 1..Len(request) :
          /\ request[i].endpoint = "8"
          /\ request[i].rally_class \in RallyClass
          /\ Truthy(request[i].stage_ids)
          /\ Message(i - 1, "does not use stage_ids") = Get(exception).detail[1]

\* C4: a batch passes validation only if every class_id is in the closed
\* class set and every kind in the closed kind set; a request with another
\* class_id or kind is rejected before any fetch.
C4_ClosedSets ==
    /\ phase \in {"running", "reported"} =>
          \A i \in 1..Len(request) :
              request[i].rally_class \in RallyClass /\ request[i].endpoint \in APIEndpoint
    /\ \A i \in 1..Len(request) :
          (Submitted /\ (request[i].rally_class \notin RallyClass
                         \/ request[i].endpoint \notin APIEndpoint))
              => (Rejected /\ HasMessage(i) /\ NoFetch)

C4_Witness ==
    /\ Rejected
    /\ Len(request) = 2
    /\ request[1].rally_class \notin RallyClass /\ request[1].endpoint \in APIEndpoint
    /\ request[2].rally_class \in RallyClass /\ request[2].endpoint \notin APIEndpoint
    /\ HasMessage(1) /\ HasMessage(2)

\* Number of tasks request r stands for, and of those before request i
TaskCount(r) == IF needs_stage_id(r.endpoint) THEN Len(Get(r.stage_ids)) ELSE 1

RECURSIVE TasksBefore(_, _)
TasksBefore(req, i) ==
    IF i = 1 THEN 0 ELSE TasksBefore(req, i - 1) + TaskCount(req[i - 1])

IsTriple(task, kind, class_id, stage_id) ==
    task.endpoint = kind /\ task.rally_class = class_id /\ task.stage_id = stage_id

\* C5: for a valid batch the number of tasks executed is the sum over its
\* requests of (number of stage ids if stage-scoped, else 1) and each task is
\* the triple (kind, class_id, stage_id) of its request, in every order of
\* completion of the fetches.
C5_Expansion ==
    phase \in {"running", "reported"} =>
        /\ Len(tasks) = TasksBefore(request, Len(request) + 1)
        /\ \A i \in 1..Len(request) :
              LET r == request[i]
                  at == TasksBefore(request, i)
              IN  IF needs_stage_id(r.endpoint)
                  THEN \A k \in 1..Len(Get(r.stage_ids)) :
                          IsTriple(tasks[at + k], r.endpoint, r.rally_class,
                                   Some(Get(r.stage_ids)[k]))
                  ELSE IsTriple(tasks[at + 1], r.endpoint, r.rally_class, None)
        /\ phase = "reported" =>
              /\ Get(report).tasks_executed = Len(tasks)
              /\ \A t \in 1..Len(tasks) : tasks[t].fetches = 1

C5_Witness ==
    /\ phase = "reported"
    /\ request = <<[rally_class |-> "1", endpoint |-> "3", stage_ids |-> Some(<<"1", "2">>)],
                   [rally_class |-> "2", endpoint |-> "8", stage_ids |-> None]>>
    /\ Get(report).tasks_executed = 3
    /\ tasks[3].pc = "done" /\ ~Get(tasks[3].response).success
    /\ Get(tasks[1].response).success

\* C6: the aggregated report holds one entry for every expanded task, also
\* when a request lists the same stage id more than once.
C6_ReportEntryPerTask ==
    phase = "reported" =>
        Cardinality(DOMAIN Get(report).results) = Get(report).tasks_executed

\* The entry under the name of task t is written by task t alone
OwnEntry(t) == \A u \in 1..Len(tasks) : task_names[u] = task_names[t] => u = t

\* C7: for a task whose fetch returned succeeded = false, the entry of the
\* task in the aggregated report is {success: false, error: failure_detail}
\* (stated for the tasks that do not share their entry, see C6).
C7_FailureDetailReported ==
    phase = "reported" =>
        \A t \in 1..Len(tasks) :
            (OwnEntry(t) /\ ~Get(tasks[t].response).success) =>
                Get(report).results[task_names[t]] =
                    [success |-> FALSE, error |-> Get(tasks[t].response).error_message]

\* C8: for a task whose fetch returned succeeded = false neither the row
\* filter nor any subscribed sink is invoked.
C8_FailedFetchNotDispatched ==
    \A t \in 1..Len(tasks) :
        (~IsNone(tasks[t].response) /\ ~Get(tasks[t].response).success) =>
            /\ tasks[t].filter_calls = 0
            /\ tasks[t].sink_log = <<>>
            /\ IsNone(tasks[t].data)
            /\ tasks[t].pc = "done"

C8_Witness ==
    \E t \in 1..Len(tasks) :
        /\ tasks[t].pc = "done"
        /\ ~Get(tasks[t].response).success
        /\ Len(CallbacksFor(callbacks, tasks[t].endpoint)) = 2

SinkRaised(task) == \E k \in 1..Len(task.sink_log) : task.sink_log[k].outcome = "raise"

\* C9: a task whose fetch succeeded is recorded {success: true} unless the
\* dispatch had a sink error, and then it is recorded {success: false, error}
\* (stated for the tasks that do not share their entry, see C6).
C9_SinkErrorReported ==
    phase = "reported" =>
        \A t \in 1..Len(tasks) :
            (OwnEntry(t) /\ Get(tasks[t].response).success) =>
                (Get(report).results[task_names[t]].success <=> ~SinkRaised(tasks[t]))

\* C10: in one dispatch a sink that raises does not stop delivery: every sink
\* registered for the kind is invoked in turn with the table, and the failure
\* is not re-raised to the task.
C10_SinkFailureIsolated ==
    \A t \in 1..Len(tasks) :
        LET task == tasks[t]
            sinks == CallbacksFor(callbacks, task.endpoint)
        IN  (~IsNone(task.response) /\ Get(task.response).success) =>
                /\ Len(task.sink_log) <= Len(sinks)
                /\ \A k \in 1..Len(task.sink_log) :
                      /\ task.sink_log[k].sink = sinks[k]
                      /\ task.sink_log[k].data = Get(task.data)
                /\ task.pc = "done" <=> Len(task.sink_log) = Len(sinks)
                /\ task.pc = "done" =>
                      Get(task.result) = [raised |-> FALSE, success |-> TRUE, error |-> None]

C10_Witness ==
    \E t \in 1..Len(tasks) :
        /\ tasks[t].pc = "done"
        /\ Len(tasks[t].sink_log) = 2
        /\ tasks[t].sink_log[1].outcome = "raise"
        /\ tasks[t].sink_log[2].outcome = "ok"

\* The outcome of every sink of a finished dispatch, in the order of invocation
PerSinkOutcomes(task) ==
    [k \in 1..Len(task.sink_log) |->
        IF task.sink_log[k].outcome = "raise" THEN "failed" ELSE "succeeded"]

\* C11: a dispatch returns the outcome of every sink: for a dispatch to two
\* sinks of which the first fails, the value returned marks sink 1 as failed
\* and sink 2 as succeeded.
C11_DispatchReturnsOutcomes ==
    \A t \in 1..Len(tasks) :
        (/\ ~IsNone(tasks[t].dispatch_return)
         /\ Len(tasks[t].sink_log) = 2
         /\ tasks[t].sink_log[1].outcome = "raise"
         /\ tasks[t].sink_log[2].outcome = "ok")
            => Get(tasks[t].dispatch_return) = PerSinkOutcomes(tasks[t])

\* The registration numbers of the sinks subscribed to endpoint
SubscribedTo(endpoint) ==
    {c \in Registered(callbacks) :
        \E k \in 1..Len(CallbacksFor(callbacks, endpoint)) :
            CallbacksFor(callbacks, endpoint)[k] = c}

\* C12: for every kind and every sequence of subscribe calls, one dispatch
\* for the kind invokes the sinks of the kind exactly once each, in the order
\* of their registration (increasing registration numbers).
C12_DispatchInRegistrationOrder ==
    \A t \in 1..Len(tasks) :
        LET log == tasks[t].sink_log
        IN  /\ \A j, k \in 1..Len(log) : j < k => log[j].sink < log[k].sink
            /\ {log[k].sink : k \in 1..Len(log)} \subseteq SubscribedTo(tasks[t].endpoint)
            /\ ~IsNone(tasks[t].dispatch_return) =>
                  {log[k].sink : k \in 1..Len(log)} = SubscribedTo(tasks[t].endpoint)

C12_Witness ==
    \E t \in 1..Len(tasks) :
        /\ ~IsNone(tasks[t].dispatch_return)
        /\ [k \in 1..Len(tasks[t].sink_log) |-> tasks[t].sink_log[k].sink] = <<1, 2>>

\* a dispatch for a kind whose only sink was registered after that of another kind
C12_WitnessTwoKinds ==
    \E t \in 1..Len(tasks) :
        /\ ~IsNone(tasks[t].dispatch_return)
        /\ tasks[t].endpoint = "3"
        /\ [k \in 1..Len(tasks[t].sink_log) |-> tasks[t].sink_log[k].sink] = <<2>>

\* C13: within one batch the outcome of a task does not depend on the other
\* tasks: whatever the other tasks did, the outcome recorded for a task in
\* the report is the one of its own fetch and dispatch.
C13_TaskOutcomeIndependent ==
    phase = "reported" =>
        \A t \in 1..Len(tasks) :
            Get(report).results[task_names[t]] = Classify(Get(tasks[t].result))

\* C14: the aggregated report is produced only after every task of the batch
\* has completed its fetch, its filter and all its sink invocations; there
\* is no report while a task is still running.
C14_ReportAfterAllTasks ==
    (~IsNone(report) \/ phase = "reported") =>
        /\ ~IsNone(report) /\ phase = "reported"
        /\ \A t \in 1..Len(tasks) :
              /\ IsDone(tasks[t])
              /\ tasks[t].fetches = 1
              /\ ~IsNone(tasks[t].result)
              /\ Get(tasks[t].response).success =>
                    /\ tasks[t].filter_calls = 1
                    /\ Len(tasks[t].sink_log) =
                           Len(CallbacksFor(callbacks, tasks[t].endpoint))

C14_Witness ==
    /\ phase = "reported"
    /\ Len(tasks) = 3
    /\ \E t \in 1..Len(tasks) : Len(tasks[t].sink_log) = 2
    /\ \E t \in 1..Len(tasks) : ~Get(tasks[t].response).success

---------------------------------------------------------------------------
(* data_store.py: filter_racing_numbers on its own *)

MaxDataRows == 2     \* data rows of a filtered table

PaddedRsz == <<" ", "R", "S", "z", " ">>
OtherName == <<"N">>

HeaderInputs ==
    {<<>>, <<rs_column_name>>, <<OtherName>>, <<OtherName, PaddedRsz>>,
     <<OtherName, OtherName>>, <<rs_column_name, rs_column_name>>}

CellInputs ==
    {<<>>, <<"7">>, <<"9", "0", "0">>, <<"9", "0", "1">>, <<" ", "9", "0", "1", " ">>,
     <<"x">>, <<"sup2">>, <<"+", "9", "0", "1">>}

RowInputs ==
    {<<>>} \cup {<<c>> : c \in CellInputs}
           \cup {<<<<"a">>, c>> : c \in CellInputs}

\* the tables filter_racing_numbers is called with: no row at all, or a
\* header row followed by up to MaxDataRows data rows
TableInputs ==
    {<<>>} \cup UNION {{<<h>> \o rows : h \in HeaderInputs, rows \in [1..n -> RowInputs]} :
                          n \in 0..MaxDataRows}

FilterInit ==
    /\ PipelineInit
    /\ LetterIdle
    /\ SheetIdle
    /\ RegistryInit
    /\ ReaderIdle
    /\ FetchIdle
    /\ OtherRefreshIdle
    /\ ObjectsInit
    /\ ExportIdle
    /\ filter_input \in TableInputs
    /\ filter_output = None
    /\ filter_again = None

\* filtered_data = filter_racing_numbers(data)
FilterCall ==
    /\ IsNone(filter_output)
    /\ filter_output' = Some(filter_racing_numbers(filter_input))
    /\ UNCHANGED <<filter_input, filter_again>>
    /\ UNCHANGED nonFilterVars

\* filter_racing_numbers(filtered_data)
FilterAgain ==
    /\ ~IsNone(filter_output)
    /\ IsNone(filter_again)
    /\ filter_again' = Some(filter_racing_numbers(Get(filter_output)))
    /\ UNCHANGED <<filter_input, filter_output>>
    /\ UNCHANGED nonFilterVars

FilterNext ==
    \/ FilterCall
    \/ FilterAgain

SpecFilter == FilterInit /\ [][FilterNext]_vars

---------------------------------------------------------------------------
(* Properties of the row filter *)

DecimalDigits == {"0", "1", "2", "3", "4", "5", "6", "7", "8", "9"}

\* The cell, trimmed, is a non-empty string of decimal digits
IsInteger(cell) ==
    /\ strip(cell) # <<>>
    /\ \A i \in 1..Len(strip(cell)) : strip(cell)[i] \in DecimalDigits

\* The header names the racing-number column, and where (first such cell)
HasRacingNumberColumn(table) ==
    table # <<>> /\ \E i \in 1..Len(table[1]) : strip(table[1][i]) = <<"R", "S", "z">>

RacingNumberColumn(table) ==
    CHOOSE i \in 1..Len(table[1]) :
        /\ strip(table[1][i]) = <<"R", "S", "z">>
        /\ \A j \in 1..(i - 1) : strip(table[1][j]) # <<"R", "S", "z">>

\* The row holds an integer greater than 900 in column col
Above900(row, col) ==
    /\ Len(row) >= col
    /\ IsInteger(row[col])
    /\ int(strip(row[col])) > 900

\* C15: the row filter keeps the header row, drops every data row whose
\* racing-number column holds an integer greater than 900, and keeps, in
\* their order, the data rows whose value there is an integer at most 900,
\* non-numeric, empty or missing.
C15_FilterDropsAbove900 ==
    (~IsNone(filter_output) /\ HasRacingNumberColumn(filter_input)) =>
        LET col == RacingNumberColumn(filter_input)
            Stays(row) == ~Above900(row, col)
        IN  Get(filter_output) = <<filter_input[1]>> \o SelectSeq(Tail(filter_input), Stays)

C15_Witness ==
    /\ ~IsNone(filter_output)
    /\ filter_input = <<<<OtherName, PaddedRsz>>,
                        <<<<"a">>, <<" ", "9", "0", "1", " ">>>>,
                        <<<<"a">>, <<"9", "0", "0">>>>>>
    /\ Get(filter_output) = <<<<OtherName, PaddedRsz>>, <<<<"a">>, <<"9", "0", "0">>>>>>

\* a row shorter than the column index and a row that is no integer are kept
C15_WitnessKept ==
    /\ ~IsNone(filter_output)
    /\ filter_input = <<<<OtherName, PaddedRsz>>, <<<<"9", "0", "1">>>>, <<<<"a">>, <<"sup2">>>>>>
    /\ Get(filter_output) = filter_input

\* C16: the row filter is idempotent, filter(filter(t)) = filter(t); after
\* one pass the header is still row 0 and no row holding a racing number
\* greater than 900 remains.
C16_FilterIdempotent ==
    /\ ~IsNone(filter_again) => Get(filter_again) = Get(filter_output)
    /\ (~IsNone(filter_output) /\ filter_input # <<>>) =>
          /\ Get(filter_output) # <<>>
          /\ Get(filter_output)[1] = filter_input[1]
    /\ (~IsNone(filter_output) /\ HasRacingNumberColumn(filter_input)) =>
          \A k \in 2..Len(Get(filter_output)) :
              ~Above900(Get(filter_output)[k], RacingNumberColumn(filter_input))

C16_Witness ==
    /\ ~IsNone(filter_again)
    /\ HasRacingNumberColumn(filter_input)
    /\ Len(filter_input) = 3
    /\ Len(Get(filter_output)) = 2
    /\ Get(filter_again) = Get(filter_output)

\* C17: if the name of the racing-number column is not in the header row,
\* the row filter returns the input rows unchanged, also when a cell holds a
\* number greater than 900.
C17_NoColumnNoFilter ==
    (~IsNone(filter_output) /\ ~HasRacingNumberColumn(filter_input)) =>
        Get(filter_output) = filter_input

C17_Witness ==
    /\ ~IsNone(filter_output)
    /\ filter_input = <<<<OtherName>>, <<<<"9", "0", "1">>>>, <<<<"7">>>>>>
    /\ Get(filter_output) = filter_input

---------------------------------------------------------------------------
(* excel_exporter.py: the column letter *)

MaxColumnNumber == 704     \* column counts of the letter computation

Alphabet ==
    <<"A", "B", "C", "D", "E", "F", "G", "H", "I", "J", "K", "L", "M",
      "N", "O", "P", "Q", "R", "S", "T", "U", "V", "W", "X", "Y", "Z">>

DecimalChars == <<"0", "1", "2", "3", "4", "5", "6", "7", "8", "9">>

\* str(n) of a natural number, as in an f-string
RECURSIVE str(_)
str(n) ==
    IF n < 10 THEN <<DecimalChars[n + 1]>>
    ELSE str(n \div 10) \o <<DecimalChars[(n % 10) + 1]>>

\* chr(64 + k) is Alphabet[k] and chr(65 + k) is Alphabet[k + 1]
_get_column_letter(col_num) ==
    IF col_num <= 26
    THEN <<Alphabet[col_num]>>
    ELSE LET col_index == col_num - 1
         IN  IF col_index < 702
             THEN LET first_char == Alphabet[col_index \div 26]
                      second_char == Alphabet[(col_index % 26) + 1]
                  IN  <<first_char, second_char>>
             ELSE <<"Z">> \o str(col_num)

\* _write_excel_data: end_col, computed in line from num_cols
EndCol(num_cols) ==
    IF num_cols <= 26
    THEN <<Alphabet[num_cols]>>
    ELSE LET col_index == num_cols - 1
         IN  IF col_index < 702
             THEN LET first_char == Alphabet[col_index \div 26]
                      second_char == Alphabet[(col_index % 26) + 1]
                  IN  <<first_char, second_char>>
             ELSE <<"Z">> \o str(num_cols)

LetterInit ==
    /\ PipelineInit
    /\ FilterIdle
    /\ SheetIdle
    /\ RegistryInit
    /\ ReaderIdle
    /\ FetchIdle
    /\ OtherRefreshIdle
    /\ ObjectsInit
    /\ ExportIdle
    /\ letter_input \in 1..MaxColumnNumber
    /\ letter_result = None
    /\ letter_end_col = None

\* _get_column_letter(col_num) is called
GetColumnLetter ==
    /\ IsNone(letter_result)
    /\ letter_result' = Some(_get_column_letter(letter_input))
    /\ UNCHANGED <<letter_input, letter_end_col>>
    /\ UNCHANGED nonLetterVars

\* _write_excel_data computes end_col for a table of letter_input columns
ComputeEndCol ==
    /\ IsNone(letter_end_col)
    /\ letter_end_col' = Some(EndCol(letter_input))
    /\ UNCHANGED <<letter_input, letter_result>>
    /\ UNCHANGED nonLetterVars

LetterNext ==
    \/ GetColumnLetter
    \/ ComputeEndCol

SpecLetter == LetterInit /\ [][LetterNext]_vars

---------------------------------------------------------------------------
(* Properties of the column letter *)

\* The bijective base-26 numeral of n: A..Z, AA..ZZ, AAA..
RECURSIVE Bijective26(_)
Bijective26(n) ==
    IF n = 0 THEN <<>>
    ELSE Bijective26((n - 1) \div 26) \o <<Alphabet[((n - 1) % 26) + 1]>>

\* C18: for every positive column count n the derived column letter is the
\* bijective base-26 numeral of n (1 -> A, 26 -> Z, 27 -> AA, 52 -> AZ,
\* 53 -> BA, 702 -> ZZ, 703 -> AAA), and the last column of the written
\* region is that same value.
C18_ColumnLetterBijective ==
    /\ Bijective26(1) = <<"A">> /\ Bijective26(26) = <<"Z">>
    /\ Bijective26(27) = <<"A", "A">> /\ Bijective26(52) = <<"A", "Z">>
    /\ Bijective26(53) = <<"B", "A">> /\ Bijective26(702) = <<"Z", "Z">>
    /\ Bijective26(703) = <<"A", "A", "A">>
    /\ ~IsNone(letter_result) => Get(letter_result) = Bijective26(letter_input)
    /\ ~IsNone(letter_end_col) => Get(letter_end_col) = Bijective26(letter_input)

\* up to 702 columns the code computes the numeral
C18_UpTo702 ==
    letter_input <= 702 =>
        /\ ~IsNone(letter_result) => Get(letter_result) = Bijective26(letter_input)
        /\ ~IsNone(letter_end_col) => Get(letter_end_col) = Bijective26(letter_input)

---------------------------------------------------------------------------
(* excel_exporter.py: one sheet of the workbook *)

MaxMargin == 3     \* excel_clean_horizontal_cells, excel_clean_vertical_cells
MaxWrites == 2     \* calls of _write_excel_data

\* <<num_rows, num_cols>> of the tables written
ExtentInputs ==
    {<<1, 1>>, <<2, 2>>, <<5, 3>>, <<8, 5>>, <<1, 26>>, <<1, 27>>, <<2, 700>>, <<1, 703>>}

Letters == {Alphabet[k] : k \in 1..26}

LetterIndex(ch) == CHOOSE k \in 1..26 : Alphabet[k] = ch

\* The number of the column a string of letters names in a cell reference
RECURSIVE ColumnNumber(_)
ColumnNumber(letters) ==
    IF letters = <<>> THEN 0
    ELSE 26 * ColumnNumber(SubSeq(letters, 1, Len(letters) - 1))
         + LetterIndex(letters[Len(letters)])

RECURSIVE LetterCount(_)
LetterCount(ref) ==
    IF ref # <<>> /\ Head(ref) \in Letters THEN 1 + LetterCount(Tail(ref)) ELSE 0

\* A cell reference: the leading letters are the column, the digits the row
Reference(ref) ==
    [row |-> int(SubSeq(ref, LetterCount(ref) + 1, Len(ref))),
     col |-> ColumnNumber(SubSeq(ref, 1, LetterCount(ref)))]

Lesser(a, b) == IF a <= b THEN a ELSE b
Greater(a, b) == IF a <= b THEN b ELSE a

\* sheet.range(address): the rectangle between the two references of "X1:Y2"
range(address) ==
    LET colon == CHOOSE k \in 1..Len(address) : address[k] = ":"
        a == Reference(SubSeq(address, 1, colon - 1))
        b == Reference(SubSeq(address, colon + 1, Len(address)))
    IN  [top |-> Lesser(a.row, b.row), bottom |-> Greater(a.row, b.row),
         left |-> Lesser(a.col, b.col), right |-> Greater(a.col, b.col)]

InRange(cell, rng) ==
    /\ rng.top <= cell[1] /\ cell[1] <= rng.bottom
    /\ rng.left <= cell[2] /\ cell[2] <= rng.right

\* Range.value = "": every cell of the range is empty afterwards
SetEmpty(cells, rng) ==
    [cell \in {x \in DOMAIN cells : ~InRange(x, rng)} |-> cells[cell]]

\* Range.value = all_data: a list of num_rows lists of num_cols values is
\* written from the top left cell of the range, whatever the size of the range
SetValues(cells, rng, num_rows, num_cols, value) ==
    LET target == {<<rng.top + i, rng.left + j>> :
                       i \in 0..(num_rows - 1), j \in 0..(num_cols - 1)}
    IN  [cell \in DOMAIN cells \cup target |->
            IF cell \in target THEN value ELSE cells[cell]]

_clear_cells_after_range(cells, num_rows, num_cols, end_col) ==
    LET start_row == num_rows + 1
        start_col == num_cols + 1
        end_row == num_rows + excel_clean_vertical_cells
        end_col_clean == _get_column_letter(num_cols + excel_clean_horizontal_cells)
        horizontal_range ==
            _get_column_letter(start_col) \o <<"1", ":">> \o end_col_clean \o str(num_rows)
        vertical_range ==
            <<"A">> \o str(start_row) \o <<":">> \o end_col \o str(end_row)
        corner_range ==
            _get_column_letter(start_col) \o str(start_row) \o <<":">>
                \o end_col_clean \o str(end_row)
        horizontal == IF excel_clean_horizontal_cells > 0
                      THEN SetEmpty(cells, range(horizontal_range)) ELSE cells
        vertical == IF excel_clean_vertical_cells > 0
                    THEN SetEmpty(horizontal, range(vertical_range)) ELSE horizontal
        corner == IF excel_clean_horizontal_cells > 0 /\ excel_clean_vertical_cells > 0
                  THEN SetEmpty(vertical, range(corner_range)) ELSE vertical
    IN  IF end_row > num_rows \/ end_col_clean # end_col THEN corner ELSE cells

\* The sheet after _write_excel_data with the workbook open; the values of
\* the table are named by the number of the write
WrittenSheet(cells, num_rows, num_cols, value) ==
    IF num_cols > 0
    THEN LET end_col == EndCol(num_cols)
             range_str == <<"A", "1", ":">> \o end_col \o str(num_rows)
             written == SetValues(cells, range(range_str), num_rows, num_cols, value)
         IN  IF excel_clean_horizontal_cells > 0 \/ excel_clean_vertical_cells > 0
             THEN _clear_cells_after_range(written, num_rows, num_cols, end_col)
             ELSE written
    ELSE cells

SheetInit ==
    /\ PipelineInit
    /\ FilterIdle
    /\ LetterIdle
    /\ RegistryInit
    /\ ReaderIdle
    /\ FetchIdle
    /\ OtherRefreshIdle
    /\ ObjectsInit
    /\ ExportIdle
    /\ excel_clean_horizontal_cells \in 0..MaxMargin
    /\ excel_clean_vertical_cells \in 0..MaxMargin
    /\ sheet = <<>>
    /\ sheet_before = <<>>
    /\ last_write = None
    /\ write_count = 0

\* _write_excel_data(sheet_name, all_data); book_open is FALSE when
\* xw.Book(settings.excel_filename) raises and the export is skipped
_write_excel_data(num_rows, num_cols, book_open) ==
    /\ write_count < MaxWrites
    /\ write_count' = write_count + 1
    /\ sheet_before' = sheet
    /\ last_write' = Some([num_rows |-> num_rows, num_cols |-> num_cols,
                           book_open |-> book_open])
    /\ sheet' = IF book_open
                THEN WrittenSheet(sheet, num_rows, num_cols, write_count + 1)
                ELSE sheet
    /\ UNCHANGED <<excel_clean_horizontal_cells, excel_clean_vertical_cells>>
    /\ UNCHANGED nonSheetVars

SheetNext ==
    \E extent \in ExtentInputs : \E book_open \in BOOLEAN :
        _write_excel_data(extent[1], extent[2], book_open)

SpecSheet == SheetInit /\ [][SheetNext]_vars

---------------------------------------------------------------------------
(* Properties of the region write *)

\* The last call wrote a table, with both margins configured
WroteWithMargins ==
    /\ ~IsNone(last_write)
    /\ Get(last_write).book_open
    /\ excel_clean_horizontal_cells > 0
    /\ excel_clean_vertical_cells > 0

WrittenRegion == (1..Get(last_write).num_rows) \X (1..Get(last_write).num_cols)

\* The rectangle of the written region and its two margins
InCleanRectangle(cell) ==
    /\ cell[1] <= Get(last_write).num_rows + excel_clean_vertical_cells
    /\ cell[2] <= Get(last_write).num_cols + excel_clean_horizontal_cells

HoldsNewData(cell) == cell \in DOMAIN sheet /\ sheet[cell] = write_count

\* C19: after a region write of r rows and c columns with both clean margins
\* non-zero, the cells of rows 1..r and columns 1..c hold the new data and
\* exactly the cells of the rectangle rows 1..r+v by columns 1..c+h outside
\* the written region are cleared; every other cell is as before.
C19_WriteClearsMargins ==
    WroteWithMargins =>
        /\ \A cell \in WrittenRegion : HoldsNewData(cell)
        /\ \A cell \in DOMAIN sheet \ WrittenRegion : cell \in DOMAIN sheet_before
        /\ \A cell \in DOMAIN sheet_before \ WrittenRegion :
              IF InCleanRectangle(cell)
              THEN cell \notin DOMAIN sheet
              ELSE cell \in DOMAIN sheet /\ sheet[cell] = sheet_before[cell]

\* the same for tables whose columns and margin end at column 702 or before
C19_UpTo702 ==
    (WroteWithMargins
     /\ Get(last_write).num_cols + excel_clean_horizontal_cells <= 702) =>
        /\ \A cell \in WrittenRegion : HoldsNewData(cell)
        /\ \A cell \in DOMAIN sheet \ WrittenRegion : cell \in DOMAIN sheet_before
        /\ \A cell \in DOMAIN sheet_before \ WrittenRegion :
              IF InCleanRectangle(cell)
              THEN cell \notin DOMAIN sheet
              ELSE cell \in DOMAIN sheet /\ sheet[cell] = sheet_before[cell]

\* 5 rows by 3 columns written over 8 rows by 5 columns, margins 2 and 3:
\* A1:C5 holds the new data and nothing else is left
C19_Example ==
    /\ WroteWithMargins
    /\ excel_clean_horizontal_cells = 2 /\ excel_clean_vertical_cells = 3
    /\ Get(last_write).num_rows = 5 /\ Get(last_write).num_cols = 3
    /\ DOMAIN sheet_before = (1..8) \X (1..5)
    /\ DOMAIN sheet = (1..5) \X (1..3)
    /\ \A cell \in DOMAIN sheet : HoldsNewData(cell)

---------------------------------------------------------------------------
(* multithreaded_datastore.py: update_from_excel *)

MaxRangeColumns == 3     \* columns of settings.racing_number_range
MaxRefreshes == 2        \* calls of update_from_excel

\* One column of the range: header cell, racing number cell, stage cell.
\* A cell is None when it is empty and its text otherwise.
ColumnInputs ==
    {<<Some(<<"1">>), Some(<<"4", "2">>), Some(<<"3">>)>>,
     <<Some(<<"9">>), Some(<<"7">>), Some(<<"1">>)>>,
     <<Some(<<"x">>), Some(<<>>), Some(<<>>)>>,
     <<Some(<<" ", "2", " ">>), Some(<<"8">>), None>>,
     <<Some(<<"3">>), None, Some(<<"4">>)>>,
     <<None, Some(<<"5">>), Some(<<"2">>)>>}

\* The rows of n columns
Rows(columns, height) ==
    [r \in 1..height |-> [i \in 1..Len(columns) |-> columns[i][r]]]

\* What the workbook answers to one call: the book or the sheet is not
\* there, reading the range raises, the range is empty, or it has rows
RangeOutcomes ==
    {[kind |-> "book_error"], [kind |-> "sheet_missing"], [kind |-> "range_error"],
     [kind |-> "data", range_data |-> <<>>]}
    \cup {[kind |-> "data", range_data |-> Rows(columns, height)] :
              columns \in UNION {[1..n -> ColumnInputs] : n \in 1..MaxRangeColumns},
              height \in {2, 3}}

\* The values of RallyClass as texts
RallyClassKeys == {<<c>> : c \in RallyClass}

\* Variant of RallyClassRaises in which every key is accepted
RallyClassRaises_never(class_key) == FALSE

\* RallyClass(class_key) raises ValueError
RallyClassRaises(class_key) == class_key \notin RallyClassKeys

\* One of the two dicts of the loop over enumerate(headers), after the
\* first n header cells; values is the row the dict is filled from
RECURSIVE Extracted(_, _, _)
Extracted(headers, values, n) ==
    IF n = 0 THEN <<>>
    ELSE LET prev == Extracted(headers, values, n - 1)
             header == headers[n]
             class_key == strip(Get(header))
         IN  IF IsNone(header) THEN prev
             ELSE IF class_key = <<>> THEN prev
             ELSE IF RallyClassRaises(class_key) THEN prev        \* continue
             ELSE IF /\ n <= Len(values)
                     /\ ~IsNone(values[n])
                     /\ strip(Get(values[n])) # <<>>
                  THEN [k \in DOMAIN prev \cup {class_key} |->
                           IF k = class_key THEN strip(Get(values[n])) ELSE prev[k]]
                  ELSE prev

\* The registry as a pair of dicts
Registry == [racing_numbers |-> _racing_numbers, stages |-> _stages]

\* Variant of StartedRefresh in which a refresh without racing numbers fails
StartedRefresh_numbers_only(outcome) ==
    LET failed == [pc |-> "done", outcome |-> outcome, before |-> Registry,
                   racing_numbers |-> <<>>, stages |-> <<>>,
                   raised |-> FALSE, result |-> Some(FALSE)]
    IN  IF outcome.kind # "data" THEN failed
        ELSE IF Len(outcome.range_data) < 3 THEN failed
        ELSE LET headers == outcome.range_data[1]
                 racing_number_values == outcome.range_data[2]
                 stage_values == outcome.range_data[3]
                 racing_numbers == Extracted(headers, racing_number_values, Len(headers))
                 stages == Extracted(headers, stage_values, Len(headers))
             IN  IF racing_numbers = <<>> THEN failed
                 ELSE [pc |-> "set_all_racing_numbers",
                       outcome |-> outcome, before |-> Registry,
                       racing_numbers |-> racing_numbers, stages |-> stages,
                       raised |-> FALSE, result |-> None]

\* Variant of StartedRefresh without the except clauses
StartedRefresh_uncaught(outcome) ==
    LET failed == [pc |-> "done", outcome |-> outcome, before |-> Registry,
                   racing_numbers |-> <<>>, stages |-> <<>>,
                   raised |-> FALSE, result |-> Some(FALSE)]
        propagated == [failed EXCEPT !.raised = TRUE, !.result = None]
    IN  IF outcome.kind # "data" THEN propagated
        ELSE IF Len(outcome.range_data) < 3 THEN failed
        ELSE LET headers == outcome.range_data[1]
                 racing_number_values == outcome.range_data[2]
                 stage_values == outcome.range_data[3]
                 racing_numbers == Extracted(headers, racing_number_values, Len(headers))
                 stages == Extracted(headers, stage_values, Len(headers))
             IN  IF racing_numbers = <<>> /\ stages = <<>> THEN failed
                 ELSE [pc |-> IF racing_numbers # <<>> THEN "set_all_racing_numbers"
                              ELSE "set_all_stages",
                       outcome |-> outcome, before |-> Registry,
                       racing_numbers |-> racing_numbers, stages |-> stages,
                       raised |-> FALSE, result |-> None]

\* update_from_excel up to its first call of a setter, or to its return.
\* Every exception (xw.Book, wb.sheets[...], sheet.range(...).value) is
\* caught and answered with False; before is the registry at the call.
StartedRefresh(outcome) ==
    LET failed == [pc |-> "done", outcome |-> outcome, before |-> Registry,
                   racing_numbers |-> <<>>, stages |-> <<>>,
                   raised |-> FALSE, result |-> Some(FALSE)]
    IN  IF outcome.kind # "data" THEN failed
        ELSE IF Len(outcome.range_data) < 3 THEN failed
        ELSE LET headers == outcome.range_data[1]
                 racing_number_values == outcome.range_data[2]
                 stage_values == outcome.range_data[3]
                 racing_numbers == Extracted(headers, racing_number_values, Len(headers))
                 stages == Extracted(headers, stage_values, Len(headers))
             IN  IF racing_numbers = <<>> /\ stages = <<>> THEN failed
                 ELSE [pc |-> IF racing_numbers # <<>> THEN "set_all_racing_numbers"
                              ELSE "set_all_stages",
                       outcome |-> outcome, before |-> Registry,
                       racing_numbers |-> racing_numbers, stages |-> stages,
                       raised |-> FALSE, result |-> None]

\* update_from_excel is called: the range is read and the two dicts are built
update_from_excel(outcome) ==
    /\ refresh.pc = "idle"
    /\ refresh_count < MaxRefreshes
    /\ refresh_count' = refresh_count + 1
    /\ refresh' = StartedRefresh(outcome)
    /\ UNCHANGED <<_racing_numbers, _stages>>
    /\ UNCHANGED nonRegistryVars

\* self.set_all_racing_numbers(racing_numbers), under the lock
set_all_racing_numbers ==
    /\ refresh.pc = "set_all_racing_numbers"
    /\ _racing_numbers' = refresh.racing_numbers
    /\ refresh' = IF refresh.stages # <<>>
                  THEN [refresh EXCEPT !.pc = "set_all_stages"]
                  ELSE [refresh EXCEPT !.pc = "done", !.result = Some(TRUE)]
    /\ UNCHANGED <<_stages, refresh_count>>
    /\ UNCHANGED nonRegistryVars

\* self.set_all_stages(stages), under the lock, and return True
set_all_stages ==
    /\ refresh.pc = "set_all_stages"
    /\ _stages' = refresh.stages
    /\ refresh' = [refresh EXCEPT !.pc = "done", !.result = Some(TRUE)]
    /\ UNCHANGED <<_racing_numbers, refresh_count>>
    /\ UNCHANGED nonRegistryVars

\* the caller of update_from_excel has its result
RefreshReturns ==
    /\ refresh.pc = "done"
    /\ refresh' = [pc |-> "idle"]
    /\ UNCHANGED <<_racing_numbers, _stages, refresh_count>>
    /\ UNCHANGED nonRegistryVars

RegistryNext ==
    \/ \E outcome \in RangeOutcomes : update_from_excel(outcome)
    \/ set_all_racing_numbers
    \/ set_all_stages
    \/ RefreshReturns

SpecRegistry == Init /\ [][RegistryNext]_vars

---------------------------------------------------------------------------
(* Properties of the registry refresh *)

\* The range of the last refresh was read and has its three rows
RangeRead ==
    /\ refresh.pc # "idle"
    /\ refresh.outcome.kind = "data"
    /\ Len(refresh.outcome.range_data) >= 3

HeaderText(i) ==
    IF IsNone(refresh.outcome.range_data[1][i]) THEN <<>>
    ELSE strip(Get(refresh.outcome.range_data[1][i]))

ValueText(row, i) ==
    IF IsNone(refresh.outcome.range_data[row][i]) THEN <<>>
    ELSE strip(Get(refresh.outcome.range_data[row][i]))

\* The columns whose header is class_id and whose cell in row is not empty
EntryColumns(row, class_id) ==
    {i \in 1..Len(refresh.outcome.range_data[1]) :
        HeaderText(i) = class_id /\ ValueText(row, i) # <<>>}

Max(S) == CHOOSE x \in S : \A y \in S : y <= x

\* The entries of row under the valid class identifiers (the last column of
\* a class counts)
EntriesOfValidColumns(row) ==
    [class_id \in {k \in {<<"1">>, <<"2">>, <<"3">>} : EntryColumns(row, k) # {}} |->
        ValueText(row, Max(EntryColumns(row, class_id)))]

\* C20: a refresh extracts entries only for the columns whose header cell is
\* a valid class identifier; every other column is skipped and does not fail
\* the refresh, which ends with true when a valid column gave an entry.
C20_RefreshSkipsInvalidColumns ==
    RangeRead =>
        /\ refresh.racing_numbers = EntriesOfValidColumns(2)
        /\ refresh.stages = EntriesOfValidColumns(3)
        /\ refresh.pc = "done" =>
              (Get(refresh.result) <=>
                  (EntriesOfValidColumns(2) # <<>> \/ EntriesOfValidColumns(3) # <<>>))

\* header "1", "9", "x" over numbers "42", "7", "" and stages "3", "1", ""
C20_Witness ==
    /\ refresh.pc = "done"
    /\ refresh.outcome =
          [kind |-> "data",
           range_data |-> <<<<Some(<<"1">>), Some(<<"9">>), Some(<<"x">>)>>,
                            <<Some(<<"4", "2">>), Some(<<"7">>), Some(<<>>)>>,
                            <<Some(<<"3">>), Some(<<"1">>), Some(<<>>)>>>>]
    /\ refresh.result = Some(TRUE)
    /\ _racing_numbers = [k \in {<<"1">>} |-> <<"4", "2">>]
    /\ _stages = [k \in {<<"1">>} |-> <<"3">>]

\* Something was extracted from the range of the last refresh
ExtractedSomething ==
    /\ RangeRead
    /\ (EntriesOfValidColumns(2) # <<>> \/ EntriesOfValidColumns(3) # <<>>)

RegistryAsBefore ==
    /\ _racing_numbers = refresh.before.racing_numbers
    /\ _stages = refresh.before.stages

\* C21: a refresh returns true if and only if at least one racing number or
\* stage was extracted from the range; when none was extracted it returns
\* false and racing numbers and stages are what they were before the call.
C21_RefreshTrueIffExtracted ==
    refresh.pc = "done" =>
        /\ ~refresh.raised
        /\ Get(refresh.result) <=> ExtractedSomething
        /\ ~ExtractedSomething => RegistryAsBefore

\* a range of three rows without a valid entry, read over a filled registry
C21_Witness ==
    /\ refresh.pc = "done"
    /\ RangeRead
    /\ refresh.result = Some(FALSE)
    /\ refresh.before.racing_numbers # <<>>
    /\ refresh.before.stages # <<>>
    /\ RegistryAsBefore

\* a refresh that extracted a stage and no racing number returns true
C21_WitnessStagesOnly ==
    /\ refresh.pc = "done"
    /\ refresh.result = Some(TRUE)
    /\ refresh.racing_numbers = <<>>
    /\ refresh.stages # <<>>

\* C22: a refresh that returns true replaces the whole registry: afterwards
\* the registry holds exactly the racing numbers and the stages extracted by
\* that refresh, and nothing from before the refresh.
C22_RefreshReplacesRegistry ==
    (refresh.pc = "done" /\ refresh.result = Some(TRUE)) =>
        /\ _racing_numbers = EntriesOfValidColumns(2)
        /\ _stages = EntriesOfValidColumns(3)

\* The range of the last refresh could not be read or is malformed
RangeUnreadable ==
    /\ refresh.pc # "idle"
    /\ \/ refresh.outcome.kind \in {"book_error", "sheet_missing", "range_error"}
       \/ refresh.outcome.kind = "data" /\ Len(refresh.outcome.range_data) < 3

\* C24: when the range cannot be read or is malformed (workbook not
\* reachable, sheet missing, fewer than three rows, exception while
\* reading), the refresh returns false, raises nothing and leaves the
\* registry as it was.
C24_UnreadableRangeIsNoOp ==
    RangeUnreadable =>
        /\ refresh.pc = "done"
        /\ ~refresh.raised
        /\ refresh.result = Some(FALSE)
        /\ RegistryAsBefore

C24_Witness ==
    /\ RangeUnreadable
    /\ refresh.outcome.kind = "range_error"
    /\ refresh.result = Some(FALSE)
    /\ refresh.before.racing_numbers # <<>>
    /\ RegistryAsBefore

\* two rows only, over a filled registry
C24_WitnessTwoRows ==
    /\ RangeUnreadable
    /\ refresh.outcome.kind = "data"
    /\ Len(refresh.outcome.range_data) = 2
    /\ refresh.result = Some(FALSE)
    /\ refresh.before.stages # <<>>
    /\ RegistryAsBefore

---------------------------------------------------------------------------
(* multithreaded_datastore.py: a thread reading during a refresh *)

MaxReads == 1     \* pairs of bulk reads of the reading thread

\* get_all_racing_numbers(): a copy of _racing_numbers, taken under the lock
get_all_racing_numbers ==
    /\ reader.pc = "idle"
    /\ reader.reads < MaxReads
    /\ reader' = [pc |-> "get_all_stages", reads |-> reader.reads + 1,
                  racing_numbers |-> _racing_numbers]
    /\ UNCHANGED nonReaderVars

\* get_all_stages(): a copy of _stages, taken under the lock
get_all_stages ==
    /\ reader.pc = "get_all_stages"
    /\ reader' = [pc |-> "done", reads |-> reader.reads,
                  racing_numbers |-> reader.racing_numbers, stages |-> _stages]
    /\ UNCHANGED nonReaderVars

\* the thread is done with what it read
ReaderReturns ==
    /\ reader.pc = "done"
    /\ reader' = [pc |-> "idle", reads |-> reader.reads]
    /\ UNCHANGED nonReaderVars

\* Every method takes self._lock for its own body only: between two methods
\* of one thread any method of another thread can run.
ReadersNext ==
    \/ RegistryNext
    \/ get_all_racing_numbers
    \/ get_all_stages
    \/ ReaderReturns

SpecReaders == Init /\ [][ReadersNext]_vars

---------------------------------------------------------------------------
(* Properties of the readers *)

\* The last refresh extracted racing numbers and stages, both other than
\* those of the registry it was called on
ReplacesBoth ==
    /\ refresh.pc # "idle"
    /\ refresh.racing_numbers # <<>>
    /\ refresh.stages # <<>>
    /\ refresh.racing_numbers # refresh.before.racing_numbers
    /\ refresh.stages # refresh.before.stages

\* C23: a refresh is atomic for the readers: no thread that reads the racing
\* numbers and then the stages while a refresh runs has the racing numbers
\* of the refresh together with the stages of the registry before it.
C23_ReadersSeeNoMix ==
    (ReplacesBoth /\ reader.pc = "done") =>
        ~(/\ reader.racing_numbers = refresh.racing_numbers
          /\ reader.stages = refresh.before.stages)

---------------------------------------------------------------------------
(* http_handler.py: POST /update-racing-number, the refresh and the batch
   that follows it *)

\* APIEndpoint.get_value(name): the value of the member of that name
get_value(name) ==
    CASE name = "entry_list" -> "8"
      [] name = "start_list" -> "9"
      [] name = "route_sheet" -> "10"
      [] name = "stage_results" -> "3"
      [] name = "current_stage" -> "4"
      [] name = "enhanced_current" -> "104"

\* Columns of the range of the workbook: class, racing number, stage
FollowUpColumns ==
    {<<Some(<<"1">>), Some(<<"4", "2">>), Some(<<"3">>)>>,
     <<Some(<<"2">>), Some(<<"7">>), Some(<<"1">>)>>,
     <<Some(<<"3">>), Some(<<"5">>), Some(<<"2">>)>>,
     <<Some(<<"2">>), Some(<<"8">>), None>>}

\* What the workbook answers to the refresh of the handler
FollowUpOutcomes ==
    {[kind |-> "book_error"]}
    \cup {[kind |-> "data", range_data |-> Rows(columns, 3)] :
              columns \in [1..MaxRangeColumns -> FollowUpColumns]}

\* The order "for rally_class in RallyClass" iterates in
RallyClassOrder == <<"1", "2", "3">>

\* The TaskItem the loop builds for one class: stages.get(rally_class.value),
\* "if stage_id" with stage_ids=[stage_id], else a TaskItem without stage_ids
FollowUpTask(stages, rally_class) ==
    LET key == <<rally_class>>
        stage_id == IF key \in DOMAIN stages THEN Some(stages[key]) ELSE None
    IN  IF ~IsNone(stage_id) /\ Get(stage_id) # <<>>
        THEN [rally_class |-> rally_class, endpoint |-> get_value("enhanced_current"),
              stage_ids |-> Some(<<Get(stage_id)>>)]
        ELSE [rally_class |-> rally_class, endpoint |-> get_value("enhanced_current"),
              stage_ids |-> None]

\* TriggerRequest(tasks=tasks)
FollowUpRequest(stages) ==
    [k \in 1..Len(RallyClassOrder) |-> FollowUpTask(stages, RallyClassOrder[k])]

\* The handler is called: racing_number_store.update_from_excel()
update_racing_number(outcome) ==
    /\ phase = "idle"
    /\ update_from_excel(outcome)

\* "if success": the tasks are built from get_all_stages() and
\* trigger_data_update(trigger_request) is called and awaited
TriggerFollowUp ==
    /\ refresh.pc = "done"
    /\ refresh.result = Some(TRUE)
    /\ trigger_data_update(FollowUpRequest(_stages))

\* The handler returns: the failure message when the refresh returned
\* False, the body with trigger_result when the batch has its report, or
\* HTTPException(500) when trigger_data_update raised
UpdateRacingNumberReturns ==
    /\ refresh.pc = "done"
    /\ refresh.result = Some(FALSE) \/ phase \in {"rejected", "reported"}
    /\ RefreshReturns

FollowUpNext ==
    \/ phase = "idle" /\ \E outcome \in FollowUpOutcomes : update_racing_number(outcome)
    \/ set_all_racing_numbers
    \/ set_all_stages
    \/ TriggerFollowUp
    \/ \E t \in 1..Len(tasks) : \E outcome \in FeedOutcomes : FetchReturns(t, outcome)
    \/ GatherReturns
    \/ UpdateRacingNumberReturns

SpecFollowUp == Init /\ [][FollowUpNext]_vars

---------------------------------------------------------------------------
(* Properties of the refresh handler *)

\* The handler has the outcome of the batch it submitted after a refresh
\* that returned True
FollowUpOver ==
    /\ refresh.pc = "done"
    /\ refresh.result = Some(TRUE)
    /\ phase \in {"rejected", "reported"}

\* A task of the batch has fetched the enhanced current stage of the class
\* and its stage in the registry
FetchedActiveStage(rally_class) ==
    \E t \in 1..Len(tasks) :
        /\ tasks[t].endpoint = "104"
        /\ tasks[t].rally_class = rally_class
        /\ tasks[t].stage_id = Some(_stages[<<rally_class>>])
        /\ tasks[t].fetches = 1

\* C25: after a refresh that returned True the batch that follows has
\* fetched, for every class with a stage in the registry, the enhanced
\* current stage of that class and stage, also when another class has no
\* stage.
C25_FollowUpFetchesActiveStages ==
    FollowUpOver =>
        \A rally_class \in RallyClass :
            <<rally_class>> \in DOMAIN _stages => FetchedActiveStage(rally_class)

\* the batch is fetched when every class has a stage
C25_AllStagesFetched ==
    (FollowUpOver /\ DOMAIN _stages = RallyClassKeys) =>
        \A rally_class \in RallyClass : FetchedActiveStage(rally_class)

C25_WitnessAllStages == FollowUpOver /\ DOMAIN _stages = RallyClassKeys /\ phase = "reported"

---------------------------------------------------------------------------
(* api_client.py: one get_* call, from the request to the APIResponse *)

MaxContent == 4      \* characters of the body of a reply of the feed

BOM == "BOM"         \* the character U+FEFF
LF == "\n"

ContentChars == {BOM, "R", ",", " ", LF}

Contents == UNION {[1..n -> ContentChars] : n \in 0..MaxContent}

\* What session.get and the parser can end in: aiohttp.ClientError (a failed
\* connection, or raise_for_status), asyncio.TimeoutError, whose str() is
\* empty, a body with a field larger than csv.field_size_limit, for which
\* csv.reader raises csv.Error, or a body the parser reads
TransportOutcomes ==
    {[kind |-> "ClientError", error |-> "Cannot connect to host"],
     [kind |-> "ClientError", error |-> "404, message='Not Found'"],
     [kind |-> "TimeoutError", error |-> ""],
     [kind |-> "field_limit", error |-> "field larger than field limit (131072)"]}
    \cup {[kind |-> "content", content |-> content] : content \in Contents}

\* The parts of text between the occurrences of sep
RECURSIVE Split(_, _)
Split(text, sep) ==
    IF \A i \in 1..Len(text) : text[i] # sep THEN <<text>>
    ELSE LET i == CHOOSE k \in 1..Len(text) :
                      text[k] = sep /\ \A j \in 1..(k - 1) : text[j] # sep
         IN  <<SubSeq(text, 1, i - 1)>> \o Split(SubSeq(text, i + 1, Len(text)), sep)

\* The lines StringIO(csv_content) iterates over, without their line ends
StringIO(csv_content) ==
    LET parts == Split(csv_content, LF)
    IN  IF parts[Len(parts)] = <<>> THEN SubSeq(parts, 1, Len(parts) - 1) ELSE parts

\* list(csv.reader(lines)): an empty line is the row [], any other line the
\* list of its fields (the bodies of the model have no quote character)
csv_reader(lines) ==
    [k \in 1..Len(lines) |-> IF lines[k] = <<>> THEN <<>> ELSE Split(lines[k], ",")]

\* any(cell.strip() for cell in row)
AnyCell(row) == \E i \in 1..Len(row) : strip(row[i]) # <<>>

\* Variant of _parse_csv_to_2d_array that keeps the empty rows
_parse_csv_to_2d_array_keep_blank(csv_content) ==
    csv_reader(StringIO(IF csv_content # <<>> /\ csv_content[1] = BOM
                        THEN Tail(csv_content) ELSE csv_content))

_parse_csv_to_2d_array(csv_content) ==
    LET content == IF csv_content # <<>> /\ csv_content[1] = BOM
                   THEN Tail(csv_content) ELSE csv_content
        raw_data == csv_reader(StringIO(content))
    IN  SelectSeq(raw_data, AnyCell)

\* _make_request and _parse_csv_to_2d_array inside the try block of a get_*
\* method: the exception raised there, or the rows
Requested(transport) ==
    IF transport.kind = "content"
    THEN [raised |-> FALSE, error |-> "",
          data |-> _parse_csv_to_2d_array(transport.content)]
    ELSE [raised |-> TRUE, error |-> transport.error, data |-> <<>>]

\* Variant of a get_* method without its "except Exception"
get_response_uncaught(endpoint, stage_id, rally_class, transport) ==
    IF Requested(transport).raised
    THEN [raised |-> TRUE, response |-> None]
    ELSE [raised |-> FALSE,
          response |-> Some(APIResponse(endpoint, stage_id, rally_class,
                                        Requested(transport)))]

\* A get_* method: what the call returns to _execute_task
get_response(endpoint, stage_id, rally_class, transport) ==
    [raised |-> FALSE,
     response |-> Some(APIResponse(endpoint, stage_id, rally_class, Requested(transport)))]

\* The stage id _execute_task passes to the handler of the endpoint
StageFor(endpoint) == IF needs_stage_id(endpoint) THEN Some("1") ELSE None

\* handler(rally_class=...) or handler(stage_id, rally_class=...) is awaited
\* and ends
FetchCall(endpoint, rally_class, transport) ==
    /\ fetch.pc = "idle"
    /\ LET returned == get_response(endpoint, StageFor(endpoint), rally_class, transport)
       IN  fetch' = [pc |-> IF returned.raised THEN "raised" ELSE "returned",
                     transport |-> transport,
                     raised |-> returned.raised,
                     response |-> returned.response]
    /\ UNCHANGED nonFetchVars

\* process_response(response) up to _trigger_callbacks: the table the
\* callbacks are called with
ProcessFetched ==
    /\ fetch.pc = "returned"
    /\ Get(fetch.response).success
    /\ fetch' = [pc |-> "dispatched",
                 transport |-> fetch.transport,
                 raised |-> fetch.raised,
                 response |-> fetch.response,
                 data |-> filter_racing_numbers(Get(fetch.response).data)]
    /\ UNCHANGED nonFetchVars

FetchNext ==
    \/ fetch.pc = "idle" /\ \E endpoint \in APIEndpoint : \E rally_class \in RallyClass :
           \E transport \in TransportOutcomes : FetchCall(endpoint, rally_class, transport)
    \/ ProcessFetched

SpecFetch == Init /\ [][FetchNext]_vars

---------------------------------------------------------------------------
(* Properties of the fetch *)

\* The request or the parser ended in an exception
FetchFailed == fetch.transport.kind # "content"

\* C26: every fetch returns a response, whatever the transport and the
\* parser end in: no exception leaves the fetch, a transport or parse error
\* gives a response with success false and an error message, and a response
\* has an error message exactly when its success is false.
C26_FetchAlwaysReturnsResponse ==
    fetch.pc # "idle" =>
        /\ ~fetch.raised
        /\ ~IsNone(fetch.response)
        /\ Get(fetch.response).success <=> IsNone(Get(fetch.response).error_message)
        /\ FetchFailed <=> ~Get(fetch.response).success
        /\ FetchFailed => Get(fetch.response).error_message = Some(fetch.transport.error)

C26_Witness ==
    /\ fetch.pc = "returned"
    /\ fetch.transport.kind = "ClientError"
    /\ ~Get(fetch.response).success

C26_WitnessParseError ==
    /\ fetch.pc = "returned"
    /\ fetch.transport.kind = "field_limit"
    /\ ~IsNone(Get(fetch.response).error_message)

C26_WitnessSuccess ==
    /\ fetch.pc = "returned"
    /\ Get(fetch.response).success
    /\ Len(Get(fetch.response).data) = 2

\* C27: a response with success true has at least one row, also for an
\* empty body and for a body of blank lines, and the table the callbacks
\* are called with is never empty.
C27_SuccessHasHeaderRow ==
    /\ (fetch.pc # "idle" /\ Get(fetch.response).success) =>
           Len(Get(fetch.response).data) >= 1
    /\ fetch.pc = "dispatched" => Len(fetch.data) >= 1

\* a body with a line that is not blank gives a row
C27_NonBlankBodyHasRow ==
    (/\ fetch.pc # "idle"
     /\ fetch.transport.kind = "content"
     /\ \E i \in 1..Len(fetch.transport.content) :
            fetch.transport.content[i] \in {"R", BOM} /\ (i > 1 \/ fetch.transport.content[i] = "R"))
        => Len(Get(fetch.response).data) >= 1

---------------------------------------------------------------------------
(* Properties of the export callbacks *)

\* What the claim calls a task: kind, class and stage
TaskKey(task) == <<task.endpoint, task.rally_class, task.stage_id>>

\* Two tasks of the batch, not the same (kind, class, stage), whose callbacks
\* are both awaited
DispatchingTogether(t1, t2) ==
    /\ t1 # t2
    /\ TaskKey(tasks[t1]) # TaskKey(tasks[t2])
    /\ tasks[t1].pc = "dispatching"
    /\ tasks[t2].pc = "dispatching"

\* C28: two distinct tasks (kind, class, stage) whose callbacks run at the
\* same time write different files: the file name has the kind, the class
\* and the stage in it.
C28_ConcurrentTasksDistinctFiles ==
    \A t1, t2 \in 1..Len(tasks) :
        DispatchingTogether(t1, t2) =>
            callback_filename(tasks[t1].endpoint, tasks[t1].stage_id)
                # callback_filename(tasks[t2].endpoint, tasks[t2].stage_id)

\* tasks of one class write different files
C28_SameClassDistinctFiles ==
    \A t1, t2 \in 1..Len(tasks) :
        (DispatchingTogether(t1, t2) /\ tasks[t1].rally_class = tasks[t2].rally_class) =>
            callback_filename(tasks[t1].endpoint, tasks[t1].stage_id)
                # callback_filename(tasks[t2].endpoint, tasks[t2].stage_id)

C28_WitnessSameClass ==
    \E t1, t2 \in 1..Len(tasks) :
        DispatchingTogether(t1, t2) /\ tasks[t1].rally_class = tasks[t2].rally_class

---------------------------------------------------------------------------
(* Properties of the filter and of the fetch inside the pipeline *)

Fetched == {t \in 1..Len(tasks) : tasks[t].pc # "fetching"}

\* C30: every task calls its handler once, also when the request fails:
\* nothing is requested a second time, and the requests of a batch are as
\* many as its expanded tasks.
C30_OneFetchPerTask ==
    /\ \A t \in 1..Len(tasks) :
           tasks[t].fetches = IF t \in Fetched THEN 1 ELSE 0
    /\ http_requests = Cardinality(Fetched)
    /\ phase = "reported" =>
           /\ http_requests = Len(tasks)
           /\ http_requests = Get(report).tasks_executed

C30_Witness ==
    /\ phase = "reported"
    /\ http_requests = 2
    /\ \E t \in 1..Len(tasks) : ~Get(tasks[t].response).success

---------------------------------------------------------------------------
(* Properties of the order of the steps of one task *)

\* The handler call of the task has not returned: nothing else has happened
BeforeFetch(task) ==
    /\ task.fetches = 0
    /\ IsNone(task.response)
    /\ task.filter_calls = 0
    /\ IsNone(task.data)
    /\ task.sink_log = <<>>
    /\ IsNone(task.result)

\* The callbacks of the task are being awaited: the fetch has returned with
\* success, the filter has run, a callback is still to end and no outcome
\* is recorded
InDispatch(task, sinks) ==
    /\ task.fetches = 1
    /\ ~IsNone(task.response) /\ Get(task.response).success
    /\ task.filter_calls = 1
    /\ task.data = Some(filter_racing_numbers(Get(task.response).data))
    /\ Len(task.sink_log) < Len(sinks)
    /\ IsNone(task.result)
    /\ IsNone(task.dispatch_return)

\* The outcome of the task is recorded: after a successful fetch every
\* callback of the endpoint has returned or raised
Recorded(task, sinks) ==
    /\ task.fetches = 1
    /\ ~IsNone(task.response)
    /\ ~IsNone(task.result)
    /\ Get(task.response).success =>
           /\ task.filter_calls = 1
           /\ Len(task.sink_log) = Len(sinks)
           /\ \A k \in 1..Len(sinks) : task.sink_log[k].outcome \in SinkOutcomes
           /\ ~IsNone(task.dispatch_return)

\* C31: the steps of one task are ordered: fetch, then filter, then the
\* callbacks, and the outcome of the task is recorded only when every callback
\* of its dispatch has returned or raised; no callback of a task is called
\* before the fetch of the task has returned.
C31_FetchFilterDispatchInOrder ==
    \A t \in 1..Len(tasks) :
        LET task == tasks[t]
            sinks == CallbacksFor(callbacks, task.endpoint)
        IN  /\ task.pc \in {"fetching", "dispatching", "done"}
            /\ task.pc = "fetching" => BeforeFetch(task)
            /\ task.pc = "dispatching" => InDispatch(task, sinks)
            /\ task.pc = "done" => Recorded(task, sinks)

\* a task in its dispatch, one of two callbacks ended, beside a task that
\* has not fetched yet
C31_Witness ==
    \E t, u \in 1..Len(tasks) :
        /\ tasks[t].pc = "dispatching"
        /\ Len(tasks[t].sink_log) = 1
        /\ tasks[u].pc = "fetching"

C31_WitnessRecorded ==
    \E t \in 1..Len(tasks) :
        /\ tasks[t].pc = "done"
        /\ Len(tasks[t].sink_log) = 2
        /\ ~IsNone(tasks[t].result)

\* no callback of a task is called, and nothing of the task changes, once
\* its outcome is recorded
C31_NothingAfterOutcome ==
    [][\A t \in 1..Len(tasks) : tasks[t].pc = "done" => tasks'[t] = tasks[t]]_vars

---------------------------------------------------------------------------
(* Properties of the counts of the report *)

\* The entries of the report that are recorded as success
SuccessEntries ==
    {name \in DOMAIN Get(report).results : Get(report).results[name].success}

\* The tasks whose coroutine returned a dict with success true
SucceededTasks == {t \in 1..Len(tasks) : Get(tasks[t].result).success}

\* C32: in the report the success count is the number of entries recorded
\* as success, the total is the number of expanded tasks, and the success
\* flag of the report is true exactly when every task succeeded.
C32_ReportCountsAgree ==
    phase = "reported" =>
        /\ Get(report).tasks_successful = Cardinality(SuccessEntries)
        /\ Get(report).tasks_executed = Len(tasks)
        /\ Get(report).success <=> SucceededTasks = 1..Len(tasks)

\* the counts agree when no two tasks have the same name
C32_CountsAgreeForDistinctNames ==
    (phase = "reported" /\ \A t \in 1..Len(tasks) : OwnEntry(t)) =>
        /\ Get(report).tasks_successful = Cardinality(SuccessEntries)
        /\ Get(report).tasks_successful = Cardinality(SucceededTasks)
        /\ Get(report).tasks_executed = Len(tasks)
        /\ Get(report).success <=> SucceededTasks = 1..Len(tasks)

\* the total and the flag are right for every batch
C32_TotalAndFlag ==
    phase = "reported" =>
        /\ Get(report).tasks_successful = Cardinality(SucceededTasks)
        /\ Get(report).tasks_executed = Len(tasks)
        /\ Get(report).success <=> SucceededTasks = 1..Len(tasks)

C32_WitnessDistinctNames ==
    /\ phase = "reported"
    /\ \A t \in 1..Len(tasks) : OwnEntry(t)
    /\ Len(tasks) = 3
    /\ Get(report).tasks_successful = 2

---------------------------------------------------------------------------
(* Properties of the termination of a batch *)

\* While the handler call of a task has not returned there is no report,
\* and the outcome of every other task is the one of its own response
HungFetchLeavesOthers ==
    \A u \in 1..Len(tasks) :
        tasks[u].pc = "fetching" =>
            /\ IsNone(report)
            /\ \A t \in 1..Len(tasks) :
                   tasks[t].pc = "done" =>
                       Get(tasks[t].result) =
                           [raised |-> FALSE,
                            success |-> Get(tasks[t].response).success,
                            error |-> Get(tasks[t].response).error_message]

\* C33: when every fetch of a valid batch returns, with success or with
\* failure, and every callback returns or raises, the report is eventually
\* returned; a fetch that has not returned holds the report back and leaves
\* the outcome of every other task as it is.
C33_ReportEventuallyReturned ==
    /\ (phase = "running") ~> (phase = "reported")
    /\ []HungFetchLeavesOthers

C33_Witness ==
    /\ phase = "reported"
    /\ Len(tasks) = 2
    /\ ~Get(tasks[1].response).success
    /\ Len(tasks[2].sink_log) >= 1

\* a task has its outcome while the fetch of another has not returned
C33_WitnessHung ==
    \E t, u \in 1..Len(tasks) :
        /\ tasks[u].pc = "fetching"
        /\ tasks[t].pc = "done"
        /\ Get(tasks[t].response).success

---------------------------------------------------------------------------
(* multithreaded_datastore.py: update_from_excel called by two threads *)

MaxStoreColumns == 2     \* columns of the range each of the two threads reads

TwoRefreshOutcomes ==
    {[kind |-> "book_error"]}
    \cup {[kind |-> "data", range_data |-> Rows(columns, 3)] :
              columns \in UNION {[1..n -> FollowUpColumns] : n \in 1..MaxStoreColumns}}

\* The first thread calls update_from_excel, once
first_update_from_excel(outcome) ==
    /\ refresh_count = 0
    /\ update_from_excel(outcome)

\* The second thread calls update_from_excel: the range is read and the two
\* dicts are built
other_update_from_excel(outcome) ==
    /\ other_refresh.pc = "idle"
    /\ other_refresh' = StartedRefresh(outcome)
    /\ UNCHANGED registryVars
    /\ UNCHANGED nonStoreVars

\* self.set_all_racing_numbers(racing_numbers) of the second thread
other_set_all_racing_numbers ==
    /\ other_refresh.pc = "set_all_racing_numbers"
    /\ _racing_numbers' = other_refresh.racing_numbers
    /\ other_refresh' = IF other_refresh.stages # <<>>
                        THEN [other_refresh EXCEPT !.pc = "set_all_stages"]
                        ELSE [other_refresh EXCEPT !.pc = "done", !.result = Some(TRUE)]
    /\ UNCHANGED <<_stages, refresh, refresh_count>>
    /\ UNCHANGED nonStoreVars

\* self.set_all_stages(stages) of the second thread, and return True
other_set_all_stages ==
    /\ other_refresh.pc = "set_all_stages"
    /\ _stages' = other_refresh.stages
    /\ other_refresh' = [other_refresh EXCEPT !.pc = "done", !.result = Some(TRUE)]
    /\ UNCHANGED <<_racing_numbers, refresh, refresh_count>>
    /\ UNCHANGED nonStoreVars

\* The lock is held inside each setter only: the setters of the two threads
\* run in any order
TwoRefreshesNext ==
    \/ refresh.pc = "idle" /\ \E outcome \in TwoRefreshOutcomes : first_update_from_excel(outcome)
    \/ set_all_racing_numbers
    \/ set_all_stages
    \/ other_refresh.pc = "idle"
           /\ \E outcome \in TwoRefreshOutcomes : other_update_from_excel(outcome)
    \/ other_set_all_racing_numbers
    \/ other_set_all_stages

SpecTwoRefreshes == Init /\ [][TwoRefreshesNext]_vars

---------------------------------------------------------------------------
(* Properties of two refreshes *)

\* The call has returned True after extracting racing numbers and stages
ReturnedBoth(call) ==
    /\ call.pc = "done"
    /\ call.result = Some(TRUE)
    /\ call.racing_numbers # <<>>
    /\ call.stages # <<>>

\* The registry is what the call extracted
RegistryOf(call) ==
    /\ _racing_numbers = call.racing_numbers
    /\ _stages = call.stages

\* C34: when two refreshes run at the same time and both return True, the
\* registry is in the end the whole result of one of them, never the racing
\* numbers of one with the stages of the other.
C34_RegistryOfOneRefresh ==
    (ReturnedBoth(refresh) /\ ReturnedBoth(other_refresh)) =>
        (RegistryOf(refresh) \/ RegistryOf(other_refresh))

\* two refreshes one after the other leave the result of the second
C34_SequentialRefreshes ==
    (/\ ReturnedBoth(refresh) /\ ReturnedBoth(other_refresh)
     /\ other_refresh.before = [racing_numbers |-> refresh.racing_numbers,
                                stages |-> refresh.stages])
        => RegistryOf(other_refresh)

C34_WitnessSequential ==
    /\ ReturnedBoth(refresh) /\ ReturnedBoth(other_refresh)
    /\ other_refresh.before = [racing_numbers |-> refresh.racing_numbers,
                               stages |-> refresh.stages]
    /\ refresh.stages # other_refresh.stages

---------------------------------------------------------------------------
(* multithreaded_datastore.py: the dicts of the store as objects. A dict is
   a mutable object and a name holds a reference to it: the heap maps every
   reference to the dict it stands for. *)

MaxObjects == 4      \* dict objects alive at one time

StoreFields == {"racing_numbers", "stages"}
ObjectKeys == {<<"1">>, <<"2">>}
ObjectValues == {<<"7">>, <<"8">>}

\* The dicts a caller can build
Dicts == UNION {[keys -> ObjectValues] : keys \in SUBSET ObjectKeys}

\* d[key] = value
SetItem(d, key, value) ==
    [k \in DOMAIN d \cup {key} |-> IF k = key THEN value ELSE d[k]]

\* A reference not in use
NewReference(heap) == CHOOSE ref \in 1..MaxObjects : ref \notin DOMAIN heap

\* The heap without the dicts nobody refers to
Collected(heap, refs) == [ref \in DOMAIN heap \cap refs |-> heap[ref]]

\* Variant of copy that returns the dict itself
copy_same_object(heap, ref) == [heap |-> heap, ref |-> ref]

\* d.copy(): a new dict with the items of d
copy(heap, ref) ==
    LET new == NewReference(heap)
    IN  [heap |-> [r \in DOMAIN heap \cup {new} |-> IF r = new THEN heap[ref] ELSE heap[r]],
         ref |-> new]

StoreReferences(store) == {store[f] : f \in StoreFields}

\* get_all_racing_numbers() / get_all_stages(): the caller holds what is
\* returned, and expects it to stay as it was returned
BulkRead(f) ==
    /\ LET returned == copy(objects.heap, objects.store[f])
       IN  objects' = [objects EXCEPT
               !.heap = Collected(returned.heap,
                                  StoreReferences(objects.store) \cup {returned.ref}),
               !.held = <<returned.ref>>,
               !.expected_held = <<objects.heap[objects.store[f]]>>]
    /\ UNCHANGED nonObjectVars

\* set_all_racing_numbers(d) / set_all_stages(d) for a dict d the caller has
\* built and goes on holding (update_from_excel is such a caller)
BulkSet(f, d) ==
    /\ LET passed == NewReference(Collected(objects.heap, StoreReferences(objects.store)))
           heap == [r \in StoreReferences(objects.store) \cup {passed} |->
                       IF r = passed THEN d ELSE objects.heap[r]]
           stored == copy(heap, passed)
           store == [objects.store EXCEPT ![f] = stored.ref]
       IN  objects' = [objects EXCEPT
               !.heap = Collected(stored.heap, StoreReferences(store) \cup {passed}),
               !.store = store,
               !.held = <<passed>>,
               !.expected_store = [@ EXCEPT ![f] = d],
               !.expected_held = <<d>>]
    /\ UNCHANGED nonObjectVars

\* set_racing_number(rally_class, racing_number) / set_stage(rally_class,
\* stage): the dict of the store is changed in place
PointSet(f, key, value) ==
    /\ objects' = [objects EXCEPT
           !.heap = [@ EXCEPT ![objects.store[f]] = SetItem(@, key, value)],
           !.expected_store = [@ EXCEPT ![f] = SetItem(@, key, value)]]
    /\ UNCHANGED nonObjectVars

\* The caller changes the dict it holds
CallerSetsItem(key, value) ==
    /\ objects.held # <<>>
    /\ objects' = [objects EXCEPT
           !.heap = [@ EXCEPT ![objects.held[1]] = SetItem(@, key, value)],
           !.expected_held = <<SetItem(objects.expected_held[1], key, value)>>]
    /\ UNCHANGED nonObjectVars

ObjectsNext ==
    \/ \E f \in StoreFields : BulkRead(f)
    \/ \E f \in StoreFields : \E d \in Dicts : BulkSet(f, d)
    \/ \E f \in StoreFields : \E key \in ObjectKeys : \E value \in ObjectValues :
           PointSet(f, key, value)
    \/ \E key \in ObjectKeys : \E value \in ObjectValues : CallerSetsItem(key, value)

SpecObjects == Init /\ [][ObjectsNext]_vars

---------------------------------------------------------------------------
(* Properties of the dicts the store hands out and takes *)

\* C35: a bulk read returns a snapshot of its own: a set or a refresh after
\* the read does not change the mapping returned, and a caller that changes
\* the mapping returned, or the mapping it passed to a bulk set, does not
\* change the registry.
C35_SnapshotIndependent ==
    /\ \A f \in StoreFields : objects.heap[objects.store[f]] = objects.expected_store[f]
    /\ objects.held # <<>> =>
           /\ objects.heap[objects.held[1]] = objects.expected_held[1]
           /\ objects.held[1] \notin StoreReferences(objects.store)
    /\ objects.store["racing_numbers"] # objects.store["stages"]

\* the caller holds a dict that is not the one of the registry any more
C35_Witness ==
    /\ objects.held # <<>>
    /\ objects.expected_held[1] = (<<"1">> :> <<"7">>)
    /\ objects.expected_store["racing_numbers"] = (<<"1">> :> <<"8">>)
    /\ objects.expected_store["stages"] = (<<"2">> :> <<"8">>)

---------------------------------------------------------------------------
(* Properties of the rows the filter returns *)

\* out is made of rows of in, each taken once, in the order of in
IsSubsequence(out, in) ==
    \E at \in [1..Len(out) -> 1..Len(in)] :
        /\ \A j, k \in 1..Len(out) : j < k => at[j] < at[k]
        /\ \A k \in 1..Len(out) : out[k] = in[at[k]]

\* C36: the row filter returns rows of its input, in their order, the header
\* first: no row is added, moved, repeated or changed, and a table of a
\* header alone or of no row is returned as it is.
C36_FilterReturnsSubsequence ==
    ~IsNone(filter_output) =>
        /\ IsSubsequence(Get(filter_output), filter_input)
        /\ filter_input # <<>> =>
               Get(filter_output) # <<>> /\ Get(filter_output)[1] = filter_input[1]
        /\ Len(filter_input) < 2 => Get(filter_output) = filter_input

\* the first data row is dropped and the second, another row, is kept
C36_Witness ==
    /\ ~IsNone(filter_output)
    /\ Len(filter_input) = 3
    /\ Len(Get(filter_output)) = 2
    /\ Get(filter_output)[2] = filter_input[3]
    /\ filter_input[2] # filter_input[3]

\* two different data rows are kept
C36_WitnessTwoKept ==
    /\ ~IsNone(filter_output)
    /\ HasRacingNumberColumn(filter_input)
    /\ Len(Get(filter_output)) = 3
    /\ filter_input[2] # filter_input[3]

C36_WitnessHeaderOnly ==
    /\ ~IsNone(filter_output)
    /\ Len(filter_input) = 1
    /\ HasRacingNumberColumn(filter_input)

C36_WitnessNoRow ==
    /\ ~IsNone(filter_output)
    /\ filter_input = <<>>

---------------------------------------------------------------------------
(* Properties of the callbacks a dispatch calls *)

\* The callbacks add_callback was called with for the endpoint
RegisteredFor(endpoint) ==
    IF endpoint \in DOMAIN callbacks
    THEN {callbacks[endpoint][k] : k \in 1..Len(callbacks[endpoint])}
    ELSE {}

\* C37: a dispatch for an endpoint calls only the callbacks registered for
\* that endpoint, none registered for another; when none is registered for
\* it no callback is called and the task of a successful fetch is still
\* recorded as success.
C37_OnlySinksOfTheKind ==
    \A t \in 1..Len(tasks) :
        LET task == tasks[t]
        IN  /\ \A k \in 1..Len(task.sink_log) :
                   task.sink_log[k].sink \in RegisteredFor(task.endpoint)
            /\ (/\ RegisteredFor(task.endpoint) = {}
                /\ ~IsNone(task.response)
                /\ Get(task.response).success) =>
                   /\ task.sink_log = <<>>
                   /\ task.pc = "done"
                   /\ Get(task.result) = [raised |-> FALSE, success |-> TRUE, error |-> None]
                   /\ (phase = "reported" /\ OwnEntry(t)) =>
                          Get(report).results[task_names[t]].success

\* a task of an endpoint without callback is recorded as success while a
\* callback is registered for another endpoint
C37_Witness ==
    \E t \in 1..Len(tasks) :
        /\ phase = "reported"
        /\ RegisteredFor(tasks[t].endpoint) = {}
        /\ Registered(callbacks) # {}
        /\ Get(tasks[t].response).success
        /\ Get(report).results[task_names[t]].success

\* a task calls the one callback of its endpoint, not the one of the other
C37_WitnessOtherKind ==
    \E t \in 1..Len(tasks) :
        /\ tasks[t].pc = "done"
        /\ Cardinality(Registered(callbacks)) = 2
        /\ Len(tasks[t].sink_log) = 1

---------------------------------------------------------------------------
(* Properties of the empty batch *)

\* C39: a batch with no requests is rejected with an error before it is
\* validated or expanded: the answer is the error of the empty batch, no
\* task is created and no request is sent to the feed.
C39_EmptyBatchRejected ==
    (phase # "idle" /\ request = <<>>) =>
        /\ phase = "rejected"
        /\ exception = Some([status_code |-> 400,
                             detail |-> <<Message(-1, "No tasks provided")>>])
        /\ tasks = <<>>
        /\ task_names = <<>>
        /\ http_requests = 0
        /\ IsNone(report)

\* the empty batch was posted, with callbacks registered
C39_Witness ==
    /\ phase = "rejected"
    /\ request = <<>>
    /\ Registered(callbacks) # {}
    /\ ~IsNone(exception)

---------------------------------------------------------------------------
(* csv_exporter.py: export_racing_speed, with the store it reads and the
   output directory it writes to *)

MaxExportRows == 2      \* data rows of the response handed to export_racing_speed

\* settings.csv_delimiter and settings.racing_speed_filename (config.py)
csv_delimiter == <<",">>
racing_speed_filename ==
  <<"r", "a", "c", "i", "n", "g", "_", "s", "p", "e", "e", "d">>

\* RallyClass.description: the dict of the property, by value
descriptions(value) ==
    CASE value = <<"1">> ->
        <<"1", ".", " ", "o", "s", "z", "t", "a_acute", "l", "y", " ", "(", "O", "R", "B", "+",
      "I", "n", "t", "e", "r", "n", "a", "t", "i", "o", "n", "a", "l", "/", "E", "R",
      "C", ")">>
      [] value = <<"2">> ->
        <<"R", "a", "l", "l", "y", "e", "2">>
      [] value = <<"3">> ->
        <<"H", "i", "s", "t", "o", "r", "i", "c">>

UpperCase ==
  <<"A", "B", "C", "D", "E", "F", "G", "H", "I", "J", "K", "L", "M", "N", "O", "P", "Q",
      "R", "S", "T", "U", "V", "W", "X", "Y", "Z">>
LowerCase ==
  <<"a", "b", "c", "d", "e", "f", "g", "h", "i", "j", "k", "l", "m", "n", "o", "p", "q",
      "r", "s", "t", "u", "v", "w", "x", "y", "z">>

\* str.lower() ("a_acute" stands for the one letter outside ASCII, which
\* is lower case already)
lower(s) ==
    [i \in 1..Len(s) |->
        IF \E k \in 1..Len(UpperCase) : UpperCase[k] = s[i]
        THEN LowerCase[CHOOSE k \in 1..Len(UpperCase) : UpperCase[k] = s[i]]
        ELSE s[i]]

\* str.replace(old, new) for one-character old and new
replace(s, old, new) == [i \in 1..Len(s) |-> IF s[i] = old THEN new ELSE s[i]]

\* sep.join(parts)
RECURSIVE join(_, _)
join(sep, parts) ==
    IF parts = <<>> THEN <<>>
    ELSE IF Len(parts) = 1 THEN parts[1]
    ELSE parts[1] \o sep \o join(sep, Tail(parts))

\* The class keys, racing numbers and responses of the model
ExportClassKeys == {<<"1">>, <<"2">>, <<"9">>}
ExportNumbers == {<<" ", "8">>, <<"7">>, <<>>}
ExportHeader == <<<<"N">>, <<"T">>>>
ExportRows ==
    {<<<<"8", " ">>, <<"a">>>>, <<<<"8">>, <<"b">>>>, <<<<"7">>, <<"c">>>>, <<>>}
ExportTables ==
    {<<>>} \cup {<<ExportHeader>> \o rows :
                     rows \in UNION {[1..n -> ExportRows] : n \in 0..MaxExportRows}}

\* The responses of the client: a failed one has no data (api_client.py)
ExportResponses ==
    {[success |-> FALSE, data |-> <<>>, rally_class |-> c] :
         c \in RallyClassKeys \cup {<<"9">>}}
    \cup {[success |-> TRUE, data |-> data, rally_class |-> c] :
              data \in ExportTables, c \in RallyClassKeys \cup {<<"9">>}}

\* What opening and writing the file can end in, the directory being there:
\* the file is written, open() raises, or write() raises after open() has
\* created the file
WriteOutcomes == {"written", "PermissionError", "OSError"}

\* MultithreadedDatastore.set_racing_number, under the lock
set_racing_number(rally_class, racing_number) ==
    /\ _racing_numbers' = [k \in DOMAIN _racing_numbers \cup {rally_class} |->
                              IF k = rally_class THEN racing_number ELSE _racing_numbers[k]]
    /\ UNCHANGED <<_stages, refresh, refresh_count>>
    /\ UNCHANGED nonRegistryVars

\* MultithreadedDatastore.get_racing_number: self._racing_numbers.get(rally_class)
get_racing_number(rally_class) ==
    IF rally_class \in DOMAIN _racing_numbers THEN Some(_racing_numbers[rally_class]) ELSE None

\* The loop of _filter_data_by_racing_number over the first n rows of
\* data[1:]; a cell is a str, of which str() is the cell itself
RECURSIVE FilteredRows(_, _, _)
FilteredRows(rows, racing_number, n) ==
    IF n = 0 THEN <<>>
    ELSE LET prev == FilteredRows(rows, racing_number, n - 1)
             row == rows[n]
         IN  IF row # <<>> /\ Len(row) > 0 /\ strip(row[1]) = strip(racing_number)
             THEN Append(prev, row)
             ELSE prev

_filter_data_by_racing_number(data, racing_number) ==
    IF data = <<>> THEN <<>>
    ELSE <<data[1]>> \o FilteredRows(Tail(data), racing_number, Len(data) - 1)

\* Lines 57-63 of export_racing_speed: the name of the file
racing_speed_file(rally_class) ==
    LET class_name == IF RallyClassRaises(rally_class)
                      THEN rally_class
                      ELSE replace(lower(descriptions(rally_class)), " ", "_")
    IN  class_name \o <<"_">> \o racing_speed_filename \o <<".", "c", "s", "v">>

\* export_to_csv up to the text that is written: one line per row
csv_text(data) == join(<<LF>>, [k \in 1..Len(data) |-> join(csv_delimiter, data[k])])

\* export_racing_speed(response), up to its return or to the suspension in
\* aiofiles.open; _write_csv_data has made the output directory by then. The
\* name of line 63 ends in ".csv", so that lines 96-97 leave the path alone.
export_racing_speed(response) ==
    /\ export.pc = "idle"
    /\ LET called == [export EXCEPT !.response = Some(response)]
           racing_number == get_racing_number(response.rally_class)
           read == [called EXCEPT !.reads = @ + 1, !.racing_number = racing_number]
           filtered_data == _filter_data_by_racing_number(response.data, Get(racing_number))
       IN  export' =
               IF ~response.success \/ response.data = <<>>
               THEN [called EXCEPT !.pc = "done"]
               ELSE IF IsNone(racing_number) \/ Get(racing_number) = <<>>
               THEN [read EXCEPT !.pc = "done"]
               ELSE IF filtered_data = <<>>
               THEN [read EXCEPT !.pc = "done", !.filtered_data = Some(filtered_data)]
               ELSE [read EXCEPT !.pc = "writing",
                                 !.filtered_data = Some(filtered_data),
                                 !.filename = Some(racing_speed_file(response.rally_class)),
                                 !.content = Some(csv_text(filtered_data)),
                                 !.dirs = @ \cup {<<>>}]
    /\ UNCHANGED nonExportVars

\* aiofiles.open(file_path, 'w') and f.write: a directory is named by its
\* path below the output directory, which is <<>>; the exception of either
\* call ends in the handler of line 67
WriteReturns(outcome) ==
    /\ export.pc = "writing"
    /\ LET file_path == Split(Get(export.filename), "/")
           parent == SubSeq(file_path, 1, Len(file_path) - 1)
           created(text) == [f \in DOMAIN export.files \cup {file_path} |->
                                IF f = file_path THEN text ELSE export.files[f]]
           over == [export EXCEPT !.pc = "done", !.outcome = Some(outcome)]
       IN  export' =
               IF parent \notin export.dirs
               THEN [over EXCEPT !.raised = Some("FileNotFoundError")]
               ELSE IF outcome = "PermissionError"
               THEN [over EXCEPT !.raised = Some("PermissionError")]
               ELSE IF outcome = "OSError"
               THEN [over EXCEPT !.raised = Some("OSError"), !.files = created(<<>>)]
               ELSE [over EXCEPT !.files = created(Get(export.content))]
    /\ UNCHANGED nonExportVars

ExportNext ==
    \/ \E rally_class \in ExportClassKeys, racing_number \in ExportNumbers :
           set_racing_number(rally_class, racing_number)
    \/ export.pc = "idle" /\ \E response \in ExportResponses : export_racing_speed(response)
    \/ \E outcome \in WriteOutcomes : WriteReturns(outcome)

SpecExport == Init /\ [][ExportNext]_vars

---------------------------------------------------------------------------
(* Properties of the racing speed export *)

\* The header row and, in their order, the data rows whose first cell is
\* the racing number once both are trimmed
ExpectedExport(data, racing_number) ==
    <<data[1]>> \o SelectSeq(Tail(data),
                             LAMBDA row : row # <<>> /\ strip(row[1]) = strip(racing_number))

ExportOver == export.pc = "done"

\* the response failed or has no rows, or no racing number is set
NothingToExport ==
    \/ ~Get(export.response).success
    \/ Get(export.response).data = <<>>
    \/ export.reads = 0
    \/ IsNone(export.racing_number)
    \/ Get(export.racing_number) = <<>>

\* open() and write() met no fault of the disk
DiskTookFile == export.outcome = Some("written")

\* C38: the export reads the registry once, for the class of the response;
\* with no racing number for the class, a failed response or a response
\* without rows nothing is written; otherwise the table written is the
\* header row and the data rows whose trimmed first cell is the trimmed
\* racing number, in their order.
C38_ExportFilteredByRacingNumber ==
    ExportOver =>
        /\ export.reads <= 1
        /\ IF NothingToExport
           THEN export.files = <<>>
           ELSE DiskTookFile =>
                    \E f \in DOMAIN export.files :
                        export.files[f] =
                            csv_text(ExpectedExport(Get(export.response).data,
                                                    Get(export.racing_number)))

\* what holds of every class: one read at most, nothing written when there
\* is nothing to export, and a file that was written holds the expected table
C38_WrittenFileIsFiltered ==
    /\ export.reads <= 1
    /\ export.pc # "idle" /\ export.reads = 1 =>
           Get(export.response).success /\ Get(export.response).data # <<>>
    /\ (ExportOver /\ NothingToExport) => export.files = <<>>
    /\ \A f \in DOMAIN export.files :
           IsNone(export.raised) =>
               export.files[f] = csv_text(ExpectedExport(Get(export.response).data,
                                                         Get(export.racing_number)))

\* the racing number the export uses is the one of the registry at the call
C38_ReadAtExportTime ==
    [][\A response \in ExportResponses :
           (export_racing_speed(response) /\ export'.reads = 1) =>
               export'.racing_number = get_racing_number(response.rally_class)]_vars

\* what holds of the classes whose file name has no "/"
C38_ExportedForPlainFileName ==
    (ExportOver /\ ~NothingToExport /\ DiskTookFile
     /\ Len(Split(Get(export.filename), "/")) = 1) =>
        /\ IsNone(export.raised)
        /\ DOMAIN export.files = {<<Get(export.filename)>>}
        /\ export.files[<<Get(export.filename)>>] =
               csv_text(ExpectedExport(Get(export.response).data, Get(export.racing_number)))

\* two rows of the racing number were exported, the first of them trimmed
\* to match, while the registry has changed since the read
C38_WitnessWritten ==
    /\ ExportOver
    /\ DiskTookFile
    /\ IsNone(export.raised)
    /\ Len(Get(export.filtered_data)) = 3
    /\ Get(export.filtered_data)[2] # Get(export.filtered_data)[3]
    /\ get_racing_number(Get(export.response).rally_class) # export.racing_number

\* the export of class "1" ended in FileNotFoundError
C38_WitnessNoDirectory ==
    /\ ExportOver
    /\ Get(export.response).rally_class = <<"1">>
    /\ export.raised = Some("FileNotFoundError")
    /\ export.files = <<>>

====
